---- MODULE Spec2Model ----
(***************************************************************************)
(* Geocache chaincode (chaincodes/geocache/src/geocache.ts, class          *)
(* Geocache): cache sites, visit logs and trackables kept in a key-value   *)
(* world state.  Every transaction is a function of the world state it     *)
(* reads, its arguments and the caller: it throws or it returns a value    *)
(* and a list of writes, which the ledger commits as one unit.             *)
(***************************************************************************)
EXTENDS Integers, Sequences, FiniteSets, TLC

VARIABLE ledger

vars == <<ledger>>

(***************************************************************************)
(* Bounds of the model.                                                    *)
(***************************************************************************)
\* wall-clock instants a peer may observe are 0..MaxTime
MaxTime == 2
\* an ISO timestamp is modelled as two fixed-width fields, most significant
\* first, each field ranging over 0..TimeRadix-1
TimeRadix == 2

Instants == 0..MaxTime

\* what ctx.clientIdentity.getID() may return; "" is the unresolvable caller
Identities == {"", "alice", "b\"ob"}
\* the callers whose identity resolves
Callers == Identities \ {""}
CacheIDs == {"c1", "c2"}
LogIDs == {"l1", "l2", "l3"}
TrackableIDs == {"t1", "t2"}
TrackableNames == {"Coin"}
TriedPasses == {"secret", "wrong"}

\* what callers pass to CreateCache and UpdateCache
CachePayloads ==
  { [Name |-> "Cache", Description |-> "Desc", GPSX |-> 10, GPSY |-> 20,
     Pass |-> "secret"],
    [Name |-> "Renamed", Description |-> "Moved", GPSX |-> 11, GPSY |-> 21,
     Pass |-> "changed"],
    [Name |-> "Renamed", Description |-> "Desc", GPSX |-> 10, GPSY |-> 21,
     Pass |-> "secret"],
    [Name |-> "Cache", Description |-> "Moved", GPSX |-> 11, GPSY |-> 20,
     Pass |-> "changed"] }
Reports == {"", "broken"}

OK == "OK"

(***************************************************************************)
(* JavaScript helpers.                                                     *)
(***************************************************************************)
Min(a, b) == IF a <= b THEN a ELSE b

\* JavaScript's `a < b` on strings: code units compared left to right, a
\* proper prefix is smaller
StrLT(a, b) ==
  \E i \in 1..(Min(Len(a), Len(b)) + 1) :
    /\ \A j \in 1..(i - 1) : a[j] = b[j]
    /\ \/ i > Len(a) /\ i <= Len(b)
       \/ i <= Len(a) /\ i <= Len(b) /\ a[i] < b[i]

\* faulty variant of StrLE: equal strings do not count as "not later"
StrLE_Strict(a, b) == StrLT(a, b)

\* JavaScript's `a <= b` on strings
StrLE(a, b) == a = b \/ StrLT(a, b)

\* new Date(ms).toISOString(): fixed-width fields, most significant first
toISOString(ms) == <<(ms \div TimeRadix) % TimeRadix, ms % TimeRadix>>

\* JSON.stringify(s).slice(1, -1) of a string: the quotes added by stringify
\* are cut off again, the escapes inside stay
StringifySlice(s) == IF s = "b\"ob" THEN "b\\\"ob" ELSE s

(***************************************************************************)
(* World state: ctx.stub.getState / putState / deleteState.                *)
(***************************************************************************)
getState(key) == IF key \in DOMAIN ledger THEN ledger[key] ELSE <<>>

\* the entries putState and deleteState add to the write set of a transaction
putState(key, data) == [key |-> key, isDelete |-> FALSE, value |-> data]

deleteState(key) == [key |-> key, isDelete |-> TRUE, value |-> <<>>]

\* one write applied to a world state
Apply(state, write) ==
  IF write.isDelete
  THEN [k \in DOMAIN state \ {write.key} |-> state[k]]
  ELSE [k \in DOMAIN state \cup {write.key} |->
          IF k = write.key THEN write.value ELSE state[k]]

\* the write set of a transaction applied in order, as one unit
RECURSIVE Commit(_, _)
Commit(state, writes) ==
  IF writes = <<>> THEN state
  ELSE Commit(Apply(state, Head(writes)), Tail(writes))

\* the world state an invocation leaves: one that throws commits nothing
Committed(err, writes) == IF err = OK THEN Commit(ledger, writes) ELSE ledger

\* the keys a write set writes
WrittenKeys(writes) == { writes[i].key : i \in DOMAIN writes }

\* optimistic concurrency: an invocation simulated on a world state commits
\* only if no key it has read was written since
ValidAfter(reads, writesSince) == reads \cap WrittenKeys(writesSince) = {}

\* the world state after two invocations simulated on the current one are
\* delivered in the order first, second
CommittedInOrder(firstWrites, secondReads, secondWrites) ==
  IF ValidAfter(secondReads, firstWrites)
  THEN Commit(Commit(ledger, firstWrites), secondWrites)
  ELSE Commit(ledger, firstWrites)

(***************************************************************************)
(* Serialization.  stringify(sortKeys(record)) writes the properties of    *)
(* the record in the order of their keys, so the bytes are modelled as the *)
(* list of the values in that order; JSON.parse reads them back into the   *)
(* properties of an object.                                                *)
(***************************************************************************)
\* keys in order: Description, GPSX, GPSY, ID, Maintainer, Name, Pass, Report
serializeCache(cache) ==
  <<cache.Description, cache.GPSX, cache.GPSY, cache.ID, cache.Maintainer,
    cache.Name, cache.Pass, cache.Report>>

deserializeCache(data) ==
  [ID |-> data[4], Name |-> data[6], Description |-> data[1],
   GPSX |-> data[2], GPSY |-> data[3], Report |-> data[8], Pass |-> data[7],
   Maintainer |-> data[5]]

\* keys in order: Cache, ID, Time, Trackables, User
serializeLog(visitLog) ==
  <<visitLog.Cache, visitLog.ID, visitLog.Time, visitLog.Trackables,
    visitLog.User>>

deserializeLog(data) ==
  [ID |-> data[2], Trackables |-> data[4], User |-> data[5],
   Cache |-> data[1], Time |-> data[3]]

\* keys in order: ID, Inserted, Name, VisitLog
serializeTrackable(trackable) ==
  <<trackable.ID, trackable.Inserted, trackable.Name, trackable.VisitLog>>

deserializeTrackable(data) ==
  [ID |-> data[1], Name |-> data[3], Inserted |-> data[2],
   VisitLog |-> data[4]]

makeCacheID(id) == "CACHE-" \o id
makeLogID(id) == "LOG-" \o id
makeTrackableID(id) == "TRACKABLE-" \o id

CacheExists(CacheID) == Len(getState(makeCacheID(CacheID))) > 0
LogExists(LogID) == Len(getState(makeLogID(LogID))) > 0
TrackableExists(TrackableID) == Len(getState(makeTrackableID(TrackableID))) > 0

(***************************************************************************)
(* Permissions.                                                            *)
(***************************************************************************)
\* getUserID throws `User not found!` exactly when this is false
\* faulty variant of UserFound: a test that every string passes
UserFound_Always(ctx) == StringifySlice(ctx) # "" \/ StringifySlice(ctx) = ""

UserFound(ctx) == StringifySlice(ctx) # ""

getUserID(ctx) == StringifySlice(ctx)

\* faulty variant of isMaintainer: every caller passes
isMaintainer_Anyone(ctx, id) == getUserID(ctx) = id \/ getUserID(ctx) # id

isMaintainer(ctx, id) == getUserID(ctx) = id

(***************************************************************************)
(* Maintainer operations.                                                  *)
(***************************************************************************)
\* assertMaintainer: the error it throws, or OK
assertMaintainer(ctx, id) ==
  IF ~UserFound(ctx) THEN "User not found!"
  ELSE IF ~(getUserID(ctx) = id) THEN "Not maintainer"
  ELSE OK

assertCacheExists(CacheID) ==
  IF ~CacheExists(CacheID) THEN "Cache " \o CacheID \o " does not exist" ELSE OK

assertCacheNotExists(CacheID) ==
  IF CacheExists(CacheID) THEN "Cache " \o CacheID \o " already exists" ELSE OK

\* the writes an invocation has issued when it ends, for an operation that
\* makes all its checks before its first putState or deleteState
IssuedAfterChecks(err, writes) == IF err = OK THEN writes ELSE <<>>

\* keys of the world state in the byte order getStateByRange walks them
KeyOrder ==
  << "CACHE-", "CACHE-c1", "CACHE-c2", "CACHE-x", "CACHE-~", "CACHE-~x",
     "LOG-", "LOG-l1", "LOG-l2", "LOG-l3", "LOG-x", "LOG-~", "LOG-~x",
     "TRACKABLE-", "TRACKABLE-t1", "TRACKABLE-t2", "TRACKABLE-x",
     "TRACKABLE-~", "TRACKABLE-~x" >>

KeyIndex(key) == CHOOSE i \in 1..Len(KeyOrder) : KeyOrder[i] = key

\* ctx.stub.getStateByRange(startKey, endKey): the stored values from
\* startKey (included) to endKey (excluded), in key order
RECURSIVE RangeFrom(_, _)
RangeFrom(i, last) ==
  IF i >= last THEN <<>>
  ELSE IF KeyOrder[i] \in DOMAIN ledger
       THEN <<ledger[KeyOrder[i]]>> \o RangeFrom(i + 1, last)
       ELSE RangeFrom(i + 1, last)

getStateByRange(startKey, endKey) ==
  RangeFrom(KeyIndex(startKey), KeyIndex(endKey))

\* hideHiddenValues: the error it throws (from getUserID), or OK
hideHiddenValuesThrows(ctx) == IF ~UserFound(ctx) THEN "User not found!" ELSE OK

\* faulty variant of hideHiddenValues: the Pass is never cleared
hideHiddenValues_ShowsAll(ctx, cache) == cache

\* hideHiddenValues: the record it returns
hideHiddenValues(ctx, cache) ==
  IF ~isMaintainer(ctx, cache.Maintainer)
  THEN [cache EXCEPT !.Pass = ""]
  ELSE cache

\* the Maintainer UpdateCache, DeleteCache and GetCachePass read back
StoredMaintainer(CacheID) ==
  deserializeCache(getState(makeCacheID(CacheID))).Maintainer

UpdateCacheThrows(ctx, CacheID) ==
  IF assertCacheExists(CacheID) # OK THEN assertCacheExists(CacheID)
  ELSE assertMaintainer(ctx, StoredMaintainer(CacheID))

\* faulty variant of UpdateCacheReturns: the stored Report is kept
UpdateCacheReturns_KeepsReport(CacheID, Name, Description, GPSX, GPSY, Pass, Report) ==
  [ID |-> CacheID, Name |-> Name, Description |-> Description, GPSX |-> GPSX,
   GPSY |-> GPSY,
   Report |-> deserializeCache(getState(makeCacheID(CacheID))).Report,
   Pass |-> Pass, Maintainer |-> StoredMaintainer(CacheID)]

\* faulty variant of UpdateCacheReturns: the stored Pass is kept
UpdateCacheReturns_KeepsPass(CacheID, Name, Description, GPSX, GPSY, Pass, Report) ==
  [ID |-> CacheID, Name |-> Name, Description |-> Description, GPSX |-> GPSX,
   GPSY |-> GPSY, Report |-> Report,
   Pass |-> deserializeCache(getState(makeCacheID(CacheID))).Pass,
   Maintainer |-> StoredMaintainer(CacheID)]

UpdateCacheReturns(CacheID, Name, Description, GPSX, GPSY, Pass, Report) ==
  [ID |-> CacheID, Name |-> Name, Description |-> Description, GPSX |-> GPSX,
   GPSY |-> GPSY, Report |-> Report, Pass |-> Pass,
   Maintainer |-> StoredMaintainer(CacheID)]

UpdateCacheWrites(CacheID, Name, Description, GPSX, GPSY, Pass, Report) ==
  << putState(makeCacheID(CacheID),
              serializeCache(UpdateCacheReturns(CacheID, Name, Description,
                                                GPSX, GPSY, Pass, Report))) >>

UpdateCacheIssued(ctx, CacheID, Name, Description, GPSX, GPSY, Pass, Report) ==
  IssuedAfterChecks(UpdateCacheThrows(ctx, CacheID),
                    UpdateCacheWrites(CacheID, Name, Description, GPSX, GPSY,
                                      Pass, Report))

UpdateCacheCommits(ctx, CacheID, Name, Description, GPSX, GPSY, Pass, Report) ==
  Committed(UpdateCacheThrows(ctx, CacheID),
            UpdateCacheWrites(CacheID, Name, Description, GPSX, GPSY, Pass,
                              Report))

UpdateCache(ctx, CacheID, Name, Description, GPSX, GPSY, Pass, Report) ==
  ledger' = UpdateCacheCommits(ctx, CacheID, Name, Description, GPSX, GPSY,
                               Pass, Report)

DeleteCacheThrows(ctx, CacheID) ==
  IF assertCacheExists(CacheID) # OK THEN assertCacheExists(CacheID)
  ELSE assertMaintainer(ctx, StoredMaintainer(CacheID))

DeleteCacheReturns(CacheID) == CacheID

\* faulty variant of DeleteCacheWrites: the record is marked, not deleted
DeleteCacheWrites_SoftDelete(CacheID) ==
  << putState(makeCacheID(CacheID),
              serializeCache([deserializeCache(getState(makeCacheID(CacheID)))
                                EXCEPT !.Report = "deleted"])) >>

\* faulty variant of DeleteCacheWrites: the logs of the cache are deleted
\* with it
DeleteCacheWrites_WithItsLogs(CacheID) ==
  << deleteState(makeCacheID(CacheID)) >>
    \o SelectSeq(<< deleteState("LOG-l1"), deleteState("LOG-l2"),
                    deleteState("LOG-l3") >>,
                 LAMBDA w : /\ getState(w.key) # <<>>
                            /\ deserializeLog(getState(w.key)).Cache = CacheID)

DeleteCacheWrites(CacheID) == << deleteState(makeCacheID(CacheID)) >>

DeleteCacheIssued(ctx, CacheID) ==
  IssuedAfterChecks(DeleteCacheThrows(ctx, CacheID), DeleteCacheWrites(CacheID))

DeleteCacheCommits(ctx, CacheID) ==
  Committed(DeleteCacheThrows(ctx, CacheID), DeleteCacheWrites(CacheID))

DeleteCache(ctx, CacheID) == ledger' = DeleteCacheCommits(ctx, CacheID)

\* faulty variant of GetCachePassThrows: the caller is not checked
GetCachePassThrows_AnyCaller(ctx, CacheID) == assertCacheExists(CacheID)

GetCachePassThrows(ctx, CacheID) ==
  IF assertCacheExists(CacheID) # OK THEN assertCacheExists(CacheID)
  ELSE assertMaintainer(ctx, StoredMaintainer(CacheID))

GetCachePassReturns(CacheID) ==
  deserializeCache(getState(makeCacheID(CacheID))).Pass

(***************************************************************************)
(* Public operations on caches.                                            *)
(***************************************************************************)
\* faulty variant of CreateCacheThrows: an existing cache is overwritten
CreateCacheThrows_Overwrites(ctx, CacheID) ==
  IF ~UserFound(ctx) THEN "User not found!" ELSE OK

CreateCacheThrows(ctx, CacheID) ==
  IF assertCacheNotExists(CacheID) # OK THEN assertCacheNotExists(CacheID)
  ELSE IF ~UserFound(ctx) THEN "User not found!"
  ELSE OK

CreateCacheReturns(ctx, CacheID, Name, Description, GPSX, GPSY, Pass) ==
  [ID |-> CacheID, Name |-> Name, Description |-> Description, GPSX |-> GPSX,
   GPSY |-> GPSY, Report |-> "", Pass |-> Pass, Maintainer |-> getUserID(ctx)]

CreateCacheWrites(ctx, CacheID, Name, Description, GPSX, GPSY, Pass) ==
  << putState(makeCacheID(CacheID),
              serializeCache(CreateCacheReturns(ctx, CacheID, Name,
                                                Description, GPSX, GPSY,
                                                Pass))) >>

CreateCacheIssued(ctx, CacheID, Name, Description, GPSX, GPSY, Pass) ==
  IssuedAfterChecks(CreateCacheThrows(ctx, CacheID),
                    CreateCacheWrites(ctx, CacheID, Name, Description, GPSX,
                                      GPSY, Pass))

CreateCacheCommits(ctx, CacheID, Name, Description, GPSX, GPSY, Pass) ==
  Committed(CreateCacheThrows(ctx, CacheID),
            CreateCacheWrites(ctx, CacheID, Name, Description, GPSX, GPSY,
                              Pass))

CreateCache(ctx, CacheID, Name, Description, GPSX, GPSY, Pass) ==
  ledger' = CreateCacheCommits(ctx, CacheID, Name, Description, GPSX, GPSY,
                               Pass)

GetCacheThrows(ctx, CacheID) ==
  IF assertCacheExists(CacheID) # OK THEN assertCacheExists(CacheID)
  ELSE hideHiddenValuesThrows(ctx)

GetCacheReturns(ctx, CacheID) ==
  hideHiddenValues(ctx, deserializeCache(getState(makeCacheID(CacheID))))

\* the loop of GetAllCaches calls hideHiddenValues once per stored cache
GetAllCachesThrows(ctx) ==
  IF getStateByRange("CACHE-", "CACHE-~") = <<>> THEN OK
  ELSE hideHiddenValuesThrows(ctx)

GetAllCachesReturns(ctx) ==
  LET values == getStateByRange("CACHE-", "CACHE-~")
  IN [i \in 1..Len(values) |->
        hideHiddenValues(ctx, deserializeCache(values[i]))]

\* faulty variant of GetCacheWrites: the record is written back as the
\* caller sees it
GetCacheWrites_WritesBack(ctx, CacheID) ==
  << putState(makeCacheID(CacheID),
              serializeCache(GetCacheReturns(ctx, CacheID))) >>

\* GetCache, GetAllCaches and GetCachePass call neither putState nor
\* deleteState
GetCacheWrites(ctx, CacheID) == <<>>

GetAllCachesWrites(ctx) == <<>>

GetCachePassWrites(ctx, CacheID) == <<>>

\* faulty variant of ReportCacheStores: a neighbouring field is copied into
\* Maintainer
ReportCacheStores_MaintainerMixedUp(CacheID, Report) ==
  LET oldCache == deserializeCache(getState(makeCacheID(CacheID)))
  IN [ID |-> CacheID, Name |-> oldCache.Name,
      Description |-> oldCache.Description, GPSX |-> oldCache.GPSX,
      GPSY |-> oldCache.GPSY, Report |-> Report, Pass |-> oldCache.Pass,
      Maintainer |-> oldCache.Name]

\* faulty variant of ReportCacheStores: the record is stored as a stranger
\* sees it
ReportCacheStores_PassHidden(CacheID, Report) ==
  LET oldCache == deserializeCache(getState(makeCacheID(CacheID)))
  IN [ID |-> CacheID, Name |-> oldCache.Name,
      Description |-> oldCache.Description, GPSX |-> oldCache.GPSX,
      GPSY |-> oldCache.GPSY, Report |-> Report, Pass |-> "",
      Maintainer |-> oldCache.Maintainer]

\* newcache, as ReportCache builds and stores it
ReportCacheStores(CacheID, Report) ==
  LET oldCache == deserializeCache(getState(makeCacheID(CacheID)))
  IN [ID |-> CacheID, Name |-> oldCache.Name,
      Description |-> oldCache.Description, GPSX |-> oldCache.GPSX,
      GPSY |-> oldCache.GPSY, Report |-> Report, Pass |-> oldCache.Pass,
      Maintainer |-> oldCache.Maintainer]

ReportCacheWrites(CacheID, Report) ==
  << putState(makeCacheID(CacheID),
              serializeCache(ReportCacheStores(CacheID, Report))) >>

\* hideHiddenValues, which may throw, is called after putState
ReportCacheThrows(ctx, CacheID) ==
  IF assertCacheExists(CacheID) # OK THEN assertCacheExists(CacheID)
  ELSE hideHiddenValuesThrows(ctx)

ReportCacheIssued(ctx, CacheID, Report) ==
  IF assertCacheExists(CacheID) # OK THEN <<>>
  ELSE ReportCacheWrites(CacheID, Report)

ReportCacheReturns(ctx, CacheID, Report) ==
  hideHiddenValues(ctx, ReportCacheStores(CacheID, Report))

ReportCacheCommits(ctx, CacheID, Report) ==
  Committed(ReportCacheThrows(ctx, CacheID), ReportCacheWrites(CacheID, Report))

ReportCache(ctx, CacheID, Report) ==
  ledger' = ReportCacheCommits(ctx, CacheID, Report)

(***************************************************************************)
(* Logs.                                                                   *)
(***************************************************************************)
assertLogExists(id) ==
  IF ~LogExists(id) THEN "Log " \o id \o " does not exist" ELSE OK

assertLogNotExists(id) ==
  IF LogExists(id) THEN "Log " \o id \o " already exists" ELSE OK

\* faulty variant of CreateLogThrows: the Pass is not compared
CreateLogThrows_AnyPass(ctx, LogID, CacheID, Pass) ==
  IF assertCacheExists(CacheID) # OK THEN assertCacheExists(CacheID)
  ELSE IF assertLogNotExists(LogID) # OK THEN assertLogNotExists(LogID)
  ELSE IF ~UserFound(ctx) THEN "User not found!"
  ELSE OK

CreateLogThrows(ctx, LogID, CacheID, Pass) ==
  IF assertCacheExists(CacheID) # OK THEN assertCacheExists(CacheID)
  ELSE IF assertLogNotExists(LogID) # OK THEN assertLogNotExists(LogID)
  ELSE IF Pass # deserializeCache(getState(makeCacheID(CacheID))).Pass
       THEN "Wrong Pass!"
  ELSE IF ~UserFound(ctx) THEN "User not found!"
  ELSE OK

\* the VisitLog CreateLog builds when the peer's clock reads `now`
CreateLogReturns(ctx, LogID, CacheID, now) ==
  [ID |-> LogID, Trackables |-> <<>>, User |-> getUserID(ctx),
   Cache |-> CacheID, Time |-> toISOString(now)]

CreateLogWrites(ctx, LogID, CacheID, now) ==
  << putState(makeLogID(LogID),
              serializeLog(CreateLogReturns(ctx, LogID, CacheID, now))) >>

CreateLogIssued(ctx, LogID, CacheID, Pass, now) ==
  IssuedAfterChecks(CreateLogThrows(ctx, LogID, CacheID, Pass),
                    CreateLogWrites(ctx, LogID, CacheID, now))

CreateLogCommits(ctx, LogID, CacheID, Pass, now) ==
  Committed(CreateLogThrows(ctx, LogID, CacheID, Pass),
            CreateLogWrites(ctx, LogID, CacheID, now))

\* `new Date()` is read only once every check has passed
CreateLog(ctx, LogID, CacheID, Pass) ==
  IF CreateLogThrows(ctx, LogID, CacheID, Pass) # OK
  THEN UNCHANGED ledger
  ELSE \E now \in Instants :
         ledger' = CreateLogCommits(ctx, LogID, CacheID, Pass, now)

(***************************************************************************)
(* Trackables.                                                             *)
(***************************************************************************)
assertTrackableExists(id) ==
  IF ~TrackableExists(id) THEN "Trackable " \o id \o " does not exist" ELSE OK

assertTrackableNotExists(id) ==
  IF TrackableExists(id) THEN "Trackable " \o id \o " already exists" ELSE OK

\* JSON.parse of a value that was never written throws
ParseThrows(data) == Len(data) = 0

\* `visitLog.Trackables || []`: every log the contract writes has the list
TrackablesOf(visitLog) == visitLog.Trackables

\* faulty variant of WithTag: the tags the log already holds are dropped
WithTag_ForgetsEarlierTags(visitLog, tag) ==
  [ID |-> visitLog.ID, Trackables |-> <<tag>>,
   User |-> visitLog.User, Cache |-> visitLog.Cache, Time |-> visitLog.Time]

\* faulty variant of WithTag: the tag is put in front of the list
WithTag_PutsTagFirst(visitLog, tag) ==
  [ID |-> visitLog.ID, Trackables |-> <<tag>> \o TrackablesOf(visitLog),
   User |-> visitLog.User, Cache |-> visitLog.Cache, Time |-> visitLog.Time]

\* newVisitLogEdited: the copy of a log with one more tag at the end
WithTag(visitLog, tag) ==
  [ID |-> visitLog.ID, Trackables |-> Append(TrackablesOf(visitLog), tag),
   User |-> visitLog.User, Cache |-> visitLog.Cache, Time |-> visitLog.Time]

\* faulty variant of PutTrackableAndLog: the log is not written back
PutTrackableAndLog_TrackableOnly(trackable, visitLog) ==
  << putState(makeTrackableID(trackable.ID), serializeTrackable(trackable)) >>

\* the two putState calls that end a trackable operation
PutTrackableAndLog(trackable, visitLog) ==
  << putState(makeTrackableID(trackable.ID), serializeTrackable(trackable)),
     putState(makeLogID(visitLog.ID), serializeLog(visitLog)) >>

\* faulty variant of CreateTrackableThrows: the author of the log is not
\* compared with the caller
CreateTrackableThrows_AnyCaller(ctx, TrackableID, LogID) ==
  IF assertLogExists(LogID) # OK THEN assertLogExists(LogID)
  ELSE IF assertTrackableNotExists(TrackableID) # OK
       THEN assertTrackableNotExists(TrackableID)
  ELSE IF ~UserFound(ctx) THEN "User not found!"
  ELSE OK

CreateTrackableThrows(ctx, TrackableID, LogID) ==
  IF assertLogExists(LogID) # OK THEN assertLogExists(LogID)
  ELSE IF assertTrackableNotExists(TrackableID) # OK
       THEN assertTrackableNotExists(TrackableID)
  ELSE IF ~UserFound(ctx) THEN "User not found!"
  ELSE IF getUserID(ctx) # deserializeLog(getState(makeLogID(LogID))).User
       THEN "Visitlog is not made by the User!"
  ELSE OK

\* faulty variant of CreateTrackableReturns: the trackable's own id is
\* stored as its VisitLog
CreateTrackableReturns_PointsAtItself(TrackableID, LogID, Name) ==
  [ID |-> TrackableID, Name |-> Name, Inserted |-> TRUE,
   VisitLog |-> TrackableID]

CreateTrackableReturns(TrackableID, LogID, Name) ==
  [ID |-> TrackableID, Name |-> Name, Inserted |-> TRUE, VisitLog |-> LogID]

CreateTrackableWrites(TrackableID, LogID, Name) ==
  PutTrackableAndLog(CreateTrackableReturns(TrackableID, LogID, Name),
                     WithTag(deserializeLog(getState(makeLogID(LogID))),
                             TrackableID \o "-IN"))

\* faulty variant of CreateTrackableReads: the log is not read
CreateTrackableReads_TrackableOnly(TrackableID, LogID) ==
  { makeTrackableID(TrackableID) }

\* the keys a successful CreateTrackable has passed to getState
CreateTrackableReads(TrackableID, LogID) ==
  { makeLogID(LogID), makeTrackableID(TrackableID) }

CreateTrackableIssued(ctx, TrackableID, LogID, Name) ==
  IssuedAfterChecks(CreateTrackableThrows(ctx, TrackableID, LogID),
                    CreateTrackableWrites(TrackableID, LogID, Name))

CreateTrackableCommits(ctx, TrackableID, LogID, Name) ==
  Committed(CreateTrackableThrows(ctx, TrackableID, LogID),
            CreateTrackableWrites(TrackableID, LogID, Name))

CreateTrackable(ctx, TrackableID, LogID, Name) ==
  ledger' = CreateTrackableCommits(ctx, TrackableID, LogID, Name)

\* faulty variant of InsertTrackableChecks: the Inserted flag is not looked at
InsertTrackableChecks_IgnoresInserted(ctx, trackable, newVisitLog) ==
  IF ParseThrows(getState(makeLogID(trackable.VisitLog)))
  THEN "Unexpected end of JSON input"
  ELSE LET oldVisitLog ==
             deserializeLog(getState(makeLogID(trackable.VisitLog)))
       IN IF oldVisitLog.User # newVisitLog.User
          THEN "Trackable is not owned by the User!"
          ELSE IF ~UserFound(ctx) THEN "User not found!"
          ELSE IF getUserID(ctx) # newVisitLog.User
               THEN "Visitlog is not made by the User!"
          ELSE IF StrLE(newVisitLog.Time, oldVisitLog.Time)
               THEN "Can not insert trackable into a log made before the current log!"
          ELSE OK

\* faulty variant of InsertTrackableChecks: the caches of the two logs are
\* compared, as RemoveTrackable does
InsertTrackableChecks_ComparesCaches(ctx, trackable, newVisitLog) ==
  IF trackable.Inserted = TRUE THEN "Trackable is already inserted!"
  ELSE IF ParseThrows(getState(makeLogID(trackable.VisitLog)))
       THEN "Unexpected end of JSON input"
  ELSE LET oldVisitLog ==
             deserializeLog(getState(makeLogID(trackable.VisitLog)))
       IN IF oldVisitLog.User # newVisitLog.User
          THEN "Trackable is not owned by the User!"
          ELSE IF ~UserFound(ctx) THEN "User not found!"
          ELSE IF getUserID(ctx) # newVisitLog.User
               THEN "Visitlog is not made by the User!"
          ELSE IF StrLE(newVisitLog.Time, oldVisitLog.Time)
               THEN "Can not insert trackable into a log made before the current log!"
          ELSE IF newVisitLog.Cache # oldVisitLog.Cache
               THEN "Trackable and Visitlog is for different caches!"
          ELSE OK

\* faulty variant of InsertTrackableChecks: the authors of the two logs are not
\* compared
InsertTrackableChecks_AnyOwner(ctx, trackable, newVisitLog) ==
  IF trackable.Inserted = TRUE THEN "Trackable is already inserted!"
  ELSE IF ParseThrows(getState(makeLogID(trackable.VisitLog)))
       THEN "Unexpected end of JSON input"
  ELSE LET oldVisitLog ==
             deserializeLog(getState(makeLogID(trackable.VisitLog)))
       IN IF ~UserFound(ctx) THEN "User not found!"
          ELSE IF getUserID(ctx) # newVisitLog.User
               THEN "Visitlog is not made by the User!"
          ELSE IF StrLE(newVisitLog.Time, oldVisitLog.Time)
               THEN "Can not insert trackable into a log made before the current log!"
          ELSE OK

\* the checks InsertTrackable makes once the trackable and the new log are read
InsertTrackableChecks(ctx, trackable, newVisitLog) ==
  IF trackable.Inserted = TRUE THEN "Trackable is already inserted!"
  ELSE IF ParseThrows(getState(makeLogID(trackable.VisitLog)))
       THEN "Unexpected end of JSON input"
  ELSE LET oldVisitLog ==
             deserializeLog(getState(makeLogID(trackable.VisitLog)))
       IN IF oldVisitLog.User # newVisitLog.User
          THEN "Trackable is not owned by the User!"
          ELSE IF ~UserFound(ctx) THEN "User not found!"
          ELSE IF getUserID(ctx) # newVisitLog.User
               THEN "Visitlog is not made by the User!"
          ELSE IF StrLE(newVisitLog.Time, oldVisitLog.Time)
               THEN "Can not insert trackable into a log made before the current log!"
          ELSE OK

\* faulty variant of InsertTrackableThrows: the trackable is looked up before
\* the log
InsertTrackableThrows_TrackableFirst(ctx, TrackableID, LogID) ==
  IF assertTrackableExists(TrackableID) # OK
  THEN assertTrackableExists(TrackableID)
  ELSE IF assertLogExists(LogID) # OK THEN assertLogExists(LogID)
  ELSE InsertTrackableChecks(ctx,
         deserializeTrackable(getState(makeTrackableID(TrackableID))),
         deserializeLog(getState(makeLogID(LogID))))

InsertTrackableThrows(ctx, TrackableID, LogID) ==
  IF assertLogExists(LogID) # OK THEN assertLogExists(LogID)
  ELSE IF assertTrackableExists(TrackableID) # OK
       THEN assertTrackableExists(TrackableID)
  ELSE InsertTrackableChecks(ctx,
         deserializeTrackable(getState(makeTrackableID(TrackableID))),
         deserializeLog(getState(makeLogID(LogID))))

\* faulty variant of InsertTrackableReturns: the log id is copied into Name
InsertTrackableReturns_NamedAfterLog(TrackableID, LogID) ==
  [ID |-> TrackableID, Name |-> LogID, Inserted |-> TRUE, VisitLog |-> LogID]

InsertTrackableReturns(TrackableID, LogID) ==
  [ID |-> TrackableID,
   Name |-> deserializeTrackable(getState(makeTrackableID(TrackableID))).Name,
   Inserted |-> TRUE, VisitLog |-> LogID]

\* faulty variant of InsertTrackableWrites: the tag of a removal is written
InsertTrackableWrites_TagsOut(TrackableID, LogID) ==
  PutTrackableAndLog(InsertTrackableReturns(TrackableID, LogID),
                     WithTag(deserializeLog(getState(makeLogID(LogID))),
                             TrackableID \o "-OUT"))

InsertTrackableWrites(TrackableID, LogID) ==
  PutTrackableAndLog(InsertTrackableReturns(TrackableID, LogID),
                     WithTag(deserializeLog(getState(makeLogID(LogID))),
                             TrackableID \o "-IN"))

\* the keys a successful InsertTrackable has passed to getState
InsertTrackableReads(TrackableID, LogID) ==
  { makeLogID(LogID), makeTrackableID(TrackableID),
    makeLogID(deserializeTrackable(
                getState(makeTrackableID(TrackableID))).VisitLog) }

InsertTrackableIssued(ctx, TrackableID, LogID) ==
  IssuedAfterChecks(InsertTrackableThrows(ctx, TrackableID, LogID),
                    InsertTrackableWrites(TrackableID, LogID))

InsertTrackableCommits(ctx, TrackableID, LogID) ==
  Committed(InsertTrackableThrows(ctx, TrackableID, LogID),
            InsertTrackableWrites(TrackableID, LogID))

InsertTrackable(ctx, TrackableID, LogID) ==
  ledger' = InsertTrackableCommits(ctx, TrackableID, LogID)

\* faulty variant of RemoveTrackableChecks: the Inserted flag is not looked at
RemoveTrackableChecks_IgnoresInserted(ctx, trackable, newVisitLog) ==
  IF ParseThrows(getState(makeLogID(trackable.VisitLog)))
  THEN "Unexpected end of JSON input"
  ELSE LET oldVisitLog ==
             deserializeLog(getState(makeLogID(trackable.VisitLog)))
       IN IF ~UserFound(ctx) THEN "User not found!"
          ELSE IF getUserID(ctx) # newVisitLog.User
               THEN "Visitlog is not made by the User!"
          ELSE IF StrLE(newVisitLog.Time, oldVisitLog.Time)
               THEN "Can not remove trackable from a log made before the current log!"
          ELSE IF newVisitLog.Cache # oldVisitLog.Cache
               THEN "Trackable and Visitlog is for different caches!"
          ELSE OK

\* faulty variant of RemoveTrackableChecks: the caches of the two logs are not
\* compared
RemoveTrackableChecks_IgnoresCaches(ctx, trackable, newVisitLog) ==
  IF trackable.Inserted # TRUE THEN "Trackable is not inserted!"
  ELSE IF ParseThrows(getState(makeLogID(trackable.VisitLog)))
       THEN "Unexpected end of JSON input"
  ELSE LET oldVisitLog ==
             deserializeLog(getState(makeLogID(trackable.VisitLog)))
       IN IF ~UserFound(ctx) THEN "User not found!"
          ELSE IF getUserID(ctx) # newVisitLog.User
               THEN "Visitlog is not made by the User!"
          ELSE IF StrLE(newVisitLog.Time, oldVisitLog.Time)
               THEN "Can not remove trackable from a log made before the current log!"
          ELSE OK

\* faulty variant of RemoveTrackableChecks: the times of the two logs are not
\* compared
RemoveTrackableChecks_IgnoresTime(ctx, trackable, newVisitLog) ==
  IF trackable.Inserted # TRUE THEN "Trackable is not inserted!"
  ELSE IF ParseThrows(getState(makeLogID(trackable.VisitLog)))
       THEN "Unexpected end of JSON input"
  ELSE LET oldVisitLog ==
             deserializeLog(getState(makeLogID(trackable.VisitLog)))
       IN IF ~UserFound(ctx) THEN "User not found!"
          ELSE IF getUserID(ctx) # newVisitLog.User
               THEN "Visitlog is not made by the User!"
          ELSE IF newVisitLog.Cache # oldVisitLog.Cache
               THEN "Trackable and Visitlog is for different caches!"
          ELSE OK

\* faulty variant of RemoveTrackableChecks: the authors of the two logs are
\* compared, as InsertTrackable does, instead of their caches
RemoveTrackableChecks_ComparesUsers(ctx, trackable, newVisitLog) ==
  IF trackable.Inserted # TRUE THEN "Trackable is not inserted!"
  ELSE IF ParseThrows(getState(makeLogID(trackable.VisitLog)))
       THEN "Unexpected end of JSON input"
  ELSE LET oldVisitLog ==
             deserializeLog(getState(makeLogID(trackable.VisitLog)))
       IN IF ~UserFound(ctx) THEN "User not found!"
          ELSE IF getUserID(ctx) # newVisitLog.User
               THEN "Visitlog is not made by the User!"
          ELSE IF StrLE(newVisitLog.Time, oldVisitLog.Time)
               THEN "Can not remove trackable from a log made before the current log!"
          ELSE IF oldVisitLog.User # newVisitLog.User
               THEN "Trackable is not owned by the User!"
          ELSE OK

\* the checks RemoveTrackable makes once the trackable and the new log are read
RemoveTrackableChecks(ctx, trackable, newVisitLog) ==
  IF trackable.Inserted # TRUE THEN "Trackable is not inserted!"
  ELSE IF ParseThrows(getState(makeLogID(trackable.VisitLog)))
       THEN "Unexpected end of JSON input"
  ELSE LET oldVisitLog ==
             deserializeLog(getState(makeLogID(trackable.VisitLog)))
       IN IF ~UserFound(ctx) THEN "User not found!"
          ELSE IF getUserID(ctx) # newVisitLog.User
               THEN "Visitlog is not made by the User!"
          ELSE IF StrLE(newVisitLog.Time, oldVisitLog.Time)
               THEN "Can not remove trackable from a log made before the current log!"
          ELSE IF newVisitLog.Cache # oldVisitLog.Cache
               THEN "Trackable and Visitlog is for different caches!"
          ELSE OK

\* faulty variant of RemoveTrackableThrows: the trackable is looked up before
\* the log
RemoveTrackableThrows_TrackableFirst(ctx, TrackableID, LogID) ==
  IF assertTrackableExists(TrackableID) # OK
  THEN assertTrackableExists(TrackableID)
  ELSE IF assertLogExists(LogID) # OK THEN assertLogExists(LogID)
  ELSE RemoveTrackableChecks(ctx,
         deserializeTrackable(getState(makeTrackableID(TrackableID))),
         deserializeLog(getState(makeLogID(LogID))))

RemoveTrackableThrows(ctx, TrackableID, LogID) ==
  IF assertLogExists(LogID) # OK THEN assertLogExists(LogID)
  ELSE IF assertTrackableExists(TrackableID) # OK
       THEN assertTrackableExists(TrackableID)
  ELSE RemoveTrackableChecks(ctx,
         deserializeTrackable(getState(makeTrackableID(TrackableID))),
         deserializeLog(getState(makeLogID(LogID))))

\* faulty variant of RemoveTrackableReturns: the trackable keeps pointing to
\* the log it was in
RemoveTrackableReturns_KeepsVisitLog(TrackableID, LogID) ==
  [ID |-> TrackableID,
   Name |-> deserializeTrackable(getState(makeTrackableID(TrackableID))).Name,
   Inserted |-> FALSE,
   VisitLog |->
     deserializeTrackable(getState(makeTrackableID(TrackableID))).VisitLog]

RemoveTrackableReturns(TrackableID, LogID) ==
  [ID |-> TrackableID,
   Name |-> deserializeTrackable(getState(makeTrackableID(TrackableID))).Name,
   Inserted |-> FALSE, VisitLog |-> LogID]

\* faulty variant of RemoveTrackableWrites: the tag of an insertion is written
RemoveTrackableWrites_TagsIn(TrackableID, LogID) ==
  PutTrackableAndLog(RemoveTrackableReturns(TrackableID, LogID),
                     WithTag(deserializeLog(getState(makeLogID(LogID))),
                             TrackableID \o "-IN"))

RemoveTrackableWrites(TrackableID, LogID) ==
  PutTrackableAndLog(RemoveTrackableReturns(TrackableID, LogID),
                     WithTag(deserializeLog(getState(makeLogID(LogID))),
                             TrackableID \o "-OUT"))

\* faulty variant of RemoveTrackableReads: the trackable is not read
RemoveTrackableReads_LogOnly(TrackableID, LogID) == { makeLogID(LogID) }

\* the keys a successful RemoveTrackable has passed to getState
RemoveTrackableReads(TrackableID, LogID) ==
  { makeLogID(LogID), makeTrackableID(TrackableID),
    makeLogID(deserializeTrackable(
                getState(makeTrackableID(TrackableID))).VisitLog) }

RemoveTrackableIssued(ctx, TrackableID, LogID) ==
  IssuedAfterChecks(RemoveTrackableThrows(ctx, TrackableID, LogID),
                    RemoveTrackableWrites(TrackableID, LogID))

RemoveTrackableCommits(ctx, TrackableID, LogID) ==
  Committed(RemoveTrackableThrows(ctx, TrackableID, LogID),
            RemoveTrackableWrites(TrackableID, LogID))

RemoveTrackable(ctx, TrackableID, LogID) ==
  ledger' = RemoveTrackableCommits(ctx, TrackableID, LogID)

(***************************************************************************)
(* Lookups of logs and trackables.                                         *)
(***************************************************************************)
\* GetLog passes LogID itself to getState, not makeLogID(LogID), and parses
\* what it gets
GetLogThrows(LogID) ==
  IF assertLogExists(LogID) # OK THEN assertLogExists(LogID)
  ELSE IF ParseThrows(getState(LogID)) THEN "Unexpected end of JSON input"
  ELSE OK

GetLogReturns(LogID) == deserializeLog(getState(LogID))

GetAllLogsReturns ==
  LET values == getStateByRange("LOG-", "LOG-~")
  IN [i \in 1..Len(values) |-> deserializeLog(values[i])]

GetTrackableThrows(TrackableID) == assertTrackableExists(TrackableID)

GetTrackableReturns(TrackableID) ==
  deserializeTrackable(getState(makeTrackableID(TrackableID)))

GetAllTrackablesReturns ==
  LET values == getStateByRange("TRACKABLE-", "TRACKABLE-~")
  IN [i \in 1..Len(values) |-> deserializeTrackable(values[i])]

(***************************************************************************)
(* Transfer engine.  The world state holds the cache sites c1 and c2,      *)
(* which "alice" has created with CreateCache; from there on callers       *)
(* create logs and create, insert and remove trackables, in any order.     *)
(* An invocation by the unresolvable caller throws in each of the four     *)
(* operations and leaves the world state as it is, so the steps draw the   *)
(* caller from Callers; the properties range over every identity.          *)
(*                                                                         *)
(* Two scopes are explored.  In SpecTransfer one trackable travels between *)
(* the logs that two callers make at two cache sites.  In SpecCompany two  *)
(* trackables travel between the logs that two callers make at one site,   *)
(* so that a log comes to hold the tags of both.                           *)
(***************************************************************************)
SeedCache(CacheID) ==
  [ID |-> CacheID, Name |-> "Cache", Description |-> "Desc", GPSX |-> 10,
   GPSY |-> 20, Report |-> "", Pass |-> "secret", Maintainer |-> "alice"]

InitTransfer ==
  ledger = [key \in {makeCacheID(c) : c \in CacheIDs} |->
              serializeCache(SeedCache(CHOOSE c \in CacheIDs : makeCacheID(c) = key))]

\* the trackable that travels alone, and the site visited in company
LoneTrackable == {"t1"}
CompanySite == {"c1"}

DoCreateLog ==
  \E ctx \in Callers, LogID \in LogIDs, CacheID \in CacheIDs,
     Pass \in TriedPasses :
    CreateLog(ctx, LogID, CacheID, Pass)

DoCreateTrackable ==
  \E ctx \in Callers, TrackableID \in LoneTrackable, LogID \in LogIDs,
     Name \in TrackableNames :
    CreateTrackable(ctx, TrackableID, LogID, Name)

DoInsertTrackable ==
  \E ctx \in Callers, TrackableID \in LoneTrackable, LogID \in LogIDs :
    InsertTrackable(ctx, TrackableID, LogID)

DoRemoveTrackable ==
  \E ctx \in Callers, TrackableID \in LoneTrackable, LogID \in LogIDs :
    RemoveTrackable(ctx, TrackableID, LogID)

NextTransfer ==
  \/ DoCreateLog
  \/ DoCreateTrackable
  \/ DoInsertTrackable
  \/ DoRemoveTrackable

SpecTransfer == InitTransfer /\ [][NextTransfer]_vars

DoCreateLogAtSite ==
  \E ctx \in Callers, LogID \in LogIDs, CacheID \in CompanySite,
     Pass \in TriedPasses :
    CreateLog(ctx, LogID, CacheID, Pass)

DoCreateTrackableInCompany ==
  \E ctx \in Callers, TrackableID \in TrackableIDs, LogID \in LogIDs,
     Name \in TrackableNames :
    CreateTrackable(ctx, TrackableID, LogID, Name)

DoInsertTrackableInCompany ==
  \E ctx \in Callers, TrackableID \in TrackableIDs, LogID \in LogIDs :
    InsertTrackable(ctx, TrackableID, LogID)

DoRemoveTrackableInCompany ==
  \E ctx \in Callers, TrackableID \in TrackableIDs, LogID \in LogIDs :
    RemoveTrackable(ctx, TrackableID, LogID)

NextCompany ==
  \/ DoCreateLogAtSite
  \/ DoCreateTrackableInCompany
  \/ DoInsertTrackableInCompany
  \/ DoRemoveTrackableInCompany

SpecCompany == InitTransfer /\ [][NextCompany]_vars

(***************************************************************************)
(* Cache registry.  From the world state with the sites c1 and c2 callers  *)
(* of every identity create, update, report and delete caches.             *)
(***************************************************************************)
DoCreateCache ==
  \E ctx \in Identities, CacheID \in CacheIDs, p \in CachePayloads :
    CreateCache(ctx, CacheID, p.Name, p.Description, p.GPSX, p.GPSY, p.Pass)

DoUpdateCache ==
  \E ctx \in Identities, CacheID \in CacheIDs, p \in CachePayloads,
     Report \in Reports :
    UpdateCache(ctx, CacheID, p.Name, p.Description, p.GPSX, p.GPSY, p.Pass,
                Report)

DoDeleteCache ==
  \E ctx \in Identities, CacheID \in CacheIDs : DeleteCache(ctx, CacheID)

DoReportCache ==
  \E ctx \in Identities, CacheID \in CacheIDs, Report \in Reports :
    ReportCache(ctx, CacheID, Report)

NextCaches ==
  \/ DoCreateCache
  \/ DoUpdateCache
  \/ DoDeleteCache
  \/ DoReportCache

SpecCaches == InitTransfer /\ [][NextCaches]_vars

(***************************************************************************)
(* The cache operations, with maintainers who also change nothing but the  *)
(* Pass of a cache: UpdateCache called with the stored values of the other *)
(* fields.                                                                 *)
(***************************************************************************)
NewPasses == {p.Pass : p \in CachePayloads}

DoChangePass ==
  \E ctx \in Identities, CacheID \in CacheIDs, Pass \in NewPasses :
    /\ CacheExists(CacheID)
    /\ LET stored == deserializeCache(getState(makeCacheID(CacheID)))
       IN UpdateCache(ctx, CacheID, stored.Name, stored.Description,
                      stored.GPSX, stored.GPSY, Pass, stored.Report)

NextSecrets ==
  \/ DoCreateCache
  \/ DoUpdateCache
  \/ DoDeleteCache
  \/ DoReportCache
  \/ DoChangePass

SpecSecrets == InitTransfer /\ [][NextSecrets]_vars

(***************************************************************************)
(* Whole contract.  Callers of every identity, the unresolvable one        *)
(* included, delete and create the cache of one site, sign logs at it and  *)
(* move one trackable between them; the cache is created with one of the   *)
(* two payloads of SitePayloads, which differ in the Pass.                 *)
(***************************************************************************)
SitePayloads == {p \in CachePayloads : p.Name = "Cache"}

DoCreateCacheInContract ==
  \E ctx \in Identities, CacheID \in CompanySite, p \in SitePayloads :
    CreateCache(ctx, CacheID, p.Name, p.Description, p.GPSX, p.GPSY, p.Pass)

DoDeleteCacheInContract ==
  \E ctx \in Identities, CacheID \in CompanySite : DeleteCache(ctx, CacheID)

DoCreateLogInContract ==
  \E ctx \in Identities, LogID \in LogIDs, CacheID \in CompanySite,
     Pass \in TriedPasses :
    CreateLog(ctx, LogID, CacheID, Pass)

DoCreateTrackableInContract ==
  \E ctx \in Identities, TrackableID \in LoneTrackable, LogID \in LogIDs,
     Name \in TrackableNames :
    CreateTrackable(ctx, TrackableID, LogID, Name)

DoInsertTrackableInContract ==
  \E ctx \in Identities, TrackableID \in LoneTrackable, LogID \in LogIDs :
    InsertTrackable(ctx, TrackableID, LogID)

DoRemoveTrackableInContract ==
  \E ctx \in Identities, TrackableID \in LoneTrackable, LogID \in LogIDs :
    RemoveTrackable(ctx, TrackableID, LogID)

NextContract ==
  \/ DoCreateCacheInContract
  \/ DoDeleteCacheInContract
  \/ DoCreateLogInContract
  \/ DoCreateTrackableInContract
  \/ DoInsertTrackableInContract
  \/ DoRemoveTrackableInContract

SpecContract == InitTransfer /\ [][NextContract]_vars

(***************************************************************************)
(* Logbook.  One visitor signs the logs at one site and moves two          *)
(* trackables between them, so that a log comes to hold the tags of both.  *)
(***************************************************************************)
Visitor == {"alice"}

DoCreateLogInLogbook ==
  \E ctx \in Visitor, LogID \in LogIDs, CacheID \in CompanySite,
     Pass \in TriedPasses :
    CreateLog(ctx, LogID, CacheID, Pass)

DoCreateTrackableInLogbook ==
  \E ctx \in Visitor, TrackableID \in TrackableIDs, LogID \in LogIDs,
     Name \in TrackableNames :
    CreateTrackable(ctx, TrackableID, LogID, Name)

DoInsertTrackableInLogbook ==
  \E ctx \in Visitor, TrackableID \in TrackableIDs, LogID \in LogIDs :
    InsertTrackable(ctx, TrackableID, LogID)

DoRemoveTrackableInLogbook ==
  \E ctx \in Visitor, TrackableID \in TrackableIDs, LogID \in LogIDs :
    RemoveTrackable(ctx, TrackableID, LogID)

NextLogbook ==
  \/ DoCreateLogInLogbook
  \/ DoCreateTrackableInLogbook
  \/ DoInsertTrackableInLogbook
  \/ DoRemoveTrackableInLogbook

SpecLogbook == InitTransfer /\ [][NextLogbook]_vars

(***************************************************************************)
(* The password gate: the cache of one site is updated and reported while  *)
(* a visitor makes logs at it and moves a trackable through them.          *)
(***************************************************************************)
DoUpdateCacheAtGate ==
  \E ctx \in Identities, CacheID \in CompanySite, p \in SitePayloads,
     Report \in Reports :
    UpdateCache(ctx, CacheID, p.Name, p.Description, p.GPSX, p.GPSY, p.Pass,
                Report)

DoReportCacheAtGate ==
  \E ctx \in Identities, CacheID \in CompanySite, Report \in Reports :
    ReportCache(ctx, CacheID, Report)

DoCreateLogAtGate ==
  \E ctx \in Visitor, LogID \in LogIDs, CacheID \in CompanySite,
     Pass \in TriedPasses :
    CreateLog(ctx, LogID, CacheID, Pass)

DoCreateTrackableAtGate ==
  \E ctx \in Visitor, TrackableID \in LoneTrackable, LogID \in LogIDs,
     Name \in TrackableNames :
    CreateTrackable(ctx, TrackableID, LogID, Name)

DoInsertTrackableAtGate ==
  \E ctx \in Visitor, TrackableID \in LoneTrackable, LogID \in LogIDs :
    InsertTrackable(ctx, TrackableID, LogID)

DoRemoveTrackableAtGate ==
  \E ctx \in Visitor, TrackableID \in LoneTrackable, LogID \in LogIDs :
    RemoveTrackable(ctx, TrackableID, LogID)

NextGate ==
  \/ DoUpdateCacheAtGate
  \/ DoReportCacheAtGate
  \/ DoCreateLogAtGate
  \/ DoCreateTrackableAtGate
  \/ DoInsertTrackableAtGate
  \/ DoRemoveTrackableAtGate

SpecGate == InitTransfer /\ [][NextGate]_vars

(***************************************************************************)
(* Namespaces.  On the empty world state two callers create and delete     *)
(* caches, and one visitor signs logs and creates trackables, all under    *)
(* the ids of SharedIDs: a cache, a log and a trackable come to carry the  *)
(* same id.  The id "~x" starts with the character that ends the key       *)
(* ranges of GetAllCaches, GetAllLogs and GetAllTrackables.                *)
(***************************************************************************)
SharedIDs == {"x", "~x"}

InitEmpty == ledger = [key \in {} |-> <<>>]

DoCreateCacheShared ==
  \E ctx \in Callers, CacheID \in SharedIDs, p \in SitePayloads :
    CreateCache(ctx, CacheID, p.Name, p.Description, p.GPSX, p.GPSY, p.Pass)

DoDeleteCacheShared ==
  \E ctx \in Callers, CacheID \in SharedIDs : DeleteCache(ctx, CacheID)

DoCreateLogShared ==
  \E ctx \in Visitor, LogID \in SharedIDs, CacheID \in SharedIDs,
     Pass \in TriedPasses :
    CreateLog(ctx, LogID, CacheID, Pass)

DoCreateTrackableShared ==
  \E ctx \in Visitor, TrackableID \in SharedIDs, LogID \in SharedIDs,
     Name \in TrackableNames :
    CreateTrackable(ctx, TrackableID, LogID, Name)

NextNamespaces ==
  \/ DoCreateCacheShared
  \/ DoDeleteCacheShared
  \/ DoCreateLogShared
  \/ DoCreateTrackableShared

SpecNamespaces == InitEmpty /\ [][NextNamespaces]_vars

(***************************************************************************)
(* Vocabulary of the properties.                                           *)
(***************************************************************************)
HasTrackable(state, t) == makeTrackableID(t) \in DOMAIN state
HasLog(state, l) == makeLogID(l) \in DOMAIN state
TrackableIn(state, t) == deserializeTrackable(state[makeTrackableID(t)])
LogIn(state, l) == deserializeLog(state[makeLogID(l)])

\* the log a trackable of the current world state points to
OldLogOf(t) == LogIn(ledger, TrackableIn(ledger, t).VisitLog)

\* the instant an ISO timestamp denotes
InstantOf(time) == time[1] * TimeRadix + time[2]

\* how often a tag occurs in a list of tags, and in all logs of a world state
RECURSIVE Occurrences(_, _)
Occurrences(tags, tag) ==
  IF tags = <<>> THEN 0
  ELSE (IF Head(tags) = tag THEN 1 ELSE 0) + Occurrences(Tail(tags), tag)

RECURSIVE SumOver(_, _, _)
SumOver(state, logs, tag) ==
  IF logs = {} THEN 0
  ELSE LET l == CHOOSE x \in logs : TRUE
       IN Occurrences(LogIn(state, l).Trackables, tag)
            + SumOver(state, logs \ {l}, tag)

TagCount(state, tag) ==
  SumOver(state, {l \in LogIDs : HasLog(state, l)}, tag)

\* the error kinds of the operations on trackables
NotFoundLog(l) == "Log " \o l \o " does not exist"
NotFoundTrackable(t) == "Trackable " \o t \o " does not exist"
AlreadyExistsTrackable(t) == "Trackable " \o t \o " already exists"
ConflictAlreadyInserted == "Trackable is already inserted!"
ConflictNotInserted == "Trackable is not inserted!"
ConflictDifferentCaches == "Trackable and Visitlog is for different caches!"
PermissionDeniedNotOwned == "Trackable is not owned by the User!"
PermissionDeniedNotCaller == "Visitlog is not made by the User!"
TemporalOrderViolationInsert ==
  "Can not insert trackable into a log made before the current log!"
TemporalOrderViolationRemove ==
  "Can not remove trackable from a log made before the current log!"
IdentityError == "User not found!"

\* a world state differs from the current one at most in the given keys
SameExceptAt(state, keys) ==
  /\ DOMAIN state = DOMAIN ledger
  /\ \A k \in DOMAIN ledger \ keys : state[k] = ledger[k]

(***************************************************************************)
(* Properties of the transfer engine.  Each is stated for every invocation *)
(* that can be made in a reachable world state: any caller of Identities,  *)
(* any trackable id and any log id.                                        *)
(***************************************************************************)

\* the records of the trackables other than those of `touched` are in
\* `state` what they are in the current world state
OtherTrackablesKept(state, touched) ==
  \A u \in TrackableIDs \ touched :
    /\ HasTrackable(state, u) = HasTrackable(ledger, u)
    /\ HasTrackable(ledger, u) =>
         state[makeTrackableID(u)] = ledger[makeTrackableID(u)]

\* C1: Inserted is true right after a successful CreateTrackable; a
\* successful InsertTrackable finds Inserted false and leaves it true, a
\* successful RemoveTrackable finds it true and leaves it false, and no
\* successful operation changes the record of another trackable (CreateLog
\* changes none): the successful transitions of one trackable alternate
\* Remove, Insert, Remove, ...
C1_InsertedAlternates ==
  /\ \A ctx \in Identities, t \in TrackableIDs, l \in LogIDs :
       /\ CreateTrackableThrows(ctx, t, l) = OK =>
            \A n \in TrackableNames :
              LET post == CreateTrackableCommits(ctx, t, l, n)
              IN /\ TrackableIn(post, t).Inserted = TRUE
                 /\ OtherTrackablesKept(post, {t})
       /\ InsertTrackableThrows(ctx, t, l) = OK =>
            LET post == InsertTrackableCommits(ctx, t, l)
            IN /\ TrackableIn(ledger, t).Inserted = FALSE
               /\ TrackableIn(post, t).Inserted = TRUE
               /\ OtherTrackablesKept(post, {t})
       /\ RemoveTrackableThrows(ctx, t, l) = OK =>
            LET post == RemoveTrackableCommits(ctx, t, l)
            IN /\ TrackableIn(ledger, t).Inserted = TRUE
               /\ TrackableIn(post, t).Inserted = FALSE
               /\ OtherTrackablesKept(post, {t})
  /\ \A ctx \in Identities, l \in LogIDs, c \in CacheIDs, p \in TriedPasses :
       CreateLogThrows(ctx, l, c, p) = OK =>
         \A now \in Instants :
           OtherTrackablesKept(CreateLogCommits(ctx, l, c, p, now), {})

\* C1 witness: a trackable that was created, removed and inserted again
C1_Witness ==
  \E t \in TrackableIDs :
    /\ HasTrackable(ledger, t)
    /\ TrackableIn(ledger, t).Inserted = TRUE
    /\ TagCount(ledger, t \o "-IN") = 2
    /\ TagCount(ledger, t \o "-OUT") = 1


C3_InsertEffect ==
  \A ctx \in Identities, t \in TrackableIDs, l \in LogIDs :
    InsertTrackableThrows(ctx, t, l) = OK =>
      LET post == InsertTrackableCommits(ctx, t, l)
      IN /\ SameExceptAt(post, {makeTrackableID(t), makeLogID(l)})
         /\ TrackableIn(post, t) =
              [ID |-> t, Name |-> TrackableIn(ledger, t).Name,
               Inserted |-> TRUE, VisitLog |-> l]
         /\ LogIn(post, l) =
              [LogIn(ledger, l) EXCEPT
                 !.Trackables = Append(@, t \o "-IN")]

\* C3 witness: a trackable inserted again (it has been out) into a log that
\* already held the tag of another trackable
C3_Witness ==
  \E t \in TrackableIDs :
    /\ HasTrackable(ledger, t)
    /\ TrackableIn(ledger, t).Inserted = TRUE
    /\ TagCount(ledger, t \o "-OUT") = 1
    /\ LET tags == OldLogOf(t).Trackables
       IN /\ Len(tags) >= 2
          /\ tags[Len(tags)] = t \o "-IN"
          /\ tags[1] # t \o "-IN"

\* C4: a successful RemoveTrackable(t, newLog) leaves the trackable as
\* {ID: t, Name as before, Inserted: false, VisitLog: newLog}, leaves newLog
\* with "<t>-OUT" appended to its Trackables and its ID, User, Cache and Time
\* as before, and leaves every other record as it was.
C4_RemoveEffect ==
  \A ctx \in Identities, t \in TrackableIDs, l \in LogIDs :
    RemoveTrackableThrows(ctx, t, l) = OK =>
      LET post == RemoveTrackableCommits(ctx, t, l)
      IN /\ SameExceptAt(post, {makeTrackableID(t), makeLogID(l)})
         /\ TrackableIn(post, t) =
              [ID |-> t, Name |-> TrackableIn(ledger, t).Name,
               Inserted |-> FALSE, VisitLog |-> l]
         /\ LogIn(post, l) =
              [LogIn(ledger, l) EXCEPT
                 !.Trackables = Append(@, t \o "-OUT")]

\* C4 witness: a trackable removed through a log that already held the tag
\* of another trackable
C4_Witness ==
  \E t \in TrackableIDs :
    /\ HasTrackable(ledger, t)
    /\ TrackableIn(ledger, t).Inserted = FALSE
    /\ LET tags == OldLogOf(t).Trackables
       IN /\ Len(tags) >= 2
          /\ tags[Len(tags)] = t \o "-OUT"
          /\ tags[1] # t \o "-OUT"

\* the caller resolves to the author of a log of the current world state
CallerIs(ctx, visitLog) == UserFound(ctx) /\ getUserID(ctx) = visitLog.User

\* the log `l` of the current world state is later than the log `t` points to
Later(t, l) ==
  InstantOf(LogIn(ledger, l).Time) > InstantOf(OldLogOf(t).Time)

\* a log of a world state holds a tag
Holds(state, l, tag) == Occurrences(LogIn(state, l).Trackables, tag) > 0

\* C5: CreateTrackable(t, log, name) succeeds only if the log exists, no
\* trackable t exists and the caller is the log's User; otherwise it fails
\* with NotFound (log absent), AlreadyExists (t present) or PermissionDenied
\* (a resolved caller who is not the log's User; a caller who does not
\* resolve gets the identity error).  On success the stored trackable is
\* {ID: t, Name: name, Inserted: true, VisitLog: log} and "<t>-IN" is appended
\* to the log's Trackables.
C5_CreateTrackableContract ==
  \A ctx \in Identities, t \in TrackableIDs, l \in LogIDs :
    LET err == CreateTrackableThrows(ctx, t, l)
    IN /\ err = IF ~HasLog(ledger, l) THEN NotFoundLog(l)
                ELSE IF HasTrackable(ledger, t) THEN AlreadyExistsTrackable(t)
                ELSE IF ~UserFound(ctx) THEN IdentityError
                ELSE IF getUserID(ctx) # LogIn(ledger, l).User
                     THEN PermissionDeniedNotCaller
                ELSE OK
       /\ err = OK =>
            \A n \in TrackableNames :
              LET post == CreateTrackableCommits(ctx, t, l, n)
              IN /\ TrackableIn(post, t) =
                      [ID |-> t, Name |-> n, Inserted |-> TRUE, VisitLog |-> l]
                 /\ LogIn(post, l).Trackables =
                      Append(LogIn(ledger, l).Trackables, t \o "-IN")

\* C5 witness: a trackable created into a log that was empty, in a state
\* where creating it again meets AlreadyExists, creating another one into a
\* missing log meets NotFound, and another caller is denied
C5_Witness ==
  \E t \in TrackableIDs, l \in LogIDs :
    /\ HasTrackable(ledger, t) /\ HasLog(ledger, l)
    /\ TrackableIn(ledger, t) =
         [ID |-> t, Name |-> "Coin", Inserted |-> TRUE, VisitLog |-> l]
    /\ LogIn(ledger, l).Trackables = << t \o "-IN" >>
    /\ \E ctx \in Callers :
         /\ CallerIs(ctx, LogIn(ledger, l))
         /\ CreateTrackableThrows(ctx, t, l) = AlreadyExistsTrackable(t)
    /\ \E ctx \in Callers, u \in TrackableIDs, m \in LogIDs :
         /\ ~HasTrackable(ledger, u) /\ ~HasLog(ledger, m)
         /\ ~CallerIs(ctx, LogIn(ledger, l))
         /\ CreateTrackableThrows(ctx, u, l) = PermissionDeniedNotCaller
         /\ CreateTrackableThrows(ctx, u, m) = NotFoundLog(m)

\* C6: InsertTrackable and RemoveTrackable never succeed unless the instant
\* of newLog.Time is strictly after that of oldLog.Time, and when it is not
\* (equal instants included) while all earlier checks pass, they fail with
\* TemporalOrderViolation and change nothing.
C6_TemporalOrder ==
  \A ctx \in Identities, t \in TrackableIDs, l \in LogIDs :
    (HasTrackable(ledger, t) /\ HasLog(ledger, l)) =>
      /\ InsertTrackableThrows(ctx, t, l) = OK => Later(t, l)
      /\ RemoveTrackableThrows(ctx, t, l) = OK => Later(t, l)
      /\ ( /\ ~Later(t, l)
           /\ TrackableIn(ledger, t).Inserted = FALSE
           /\ OldLogOf(t).User = LogIn(ledger, l).User
           /\ CallerIs(ctx, LogIn(ledger, l)) ) =>
             /\ InsertTrackableThrows(ctx, t, l) = TemporalOrderViolationInsert
             /\ InsertTrackableCommits(ctx, t, l) = ledger
      /\ ( /\ ~Later(t, l)
           /\ TrackableIn(ledger, t).Inserted = TRUE
           /\ CallerIs(ctx, LogIn(ledger, l)) ) =>
             /\ RemoveTrackableThrows(ctx, t, l) = TemporalOrderViolationRemove
             /\ RemoveTrackableCommits(ctx, t, l) = ledger

\* C6 witness: a removed trackable refused by another log of the same author
\* made at the same instant as its current log, and an inserted trackable
\* refused by a log of the same cache made strictly earlier
C6_Witness ==
  /\ \E t \in TrackableIDs, l \in LogIDs :
       /\ HasTrackable(ledger, t) /\ HasLog(ledger, l)
       /\ TrackableIn(ledger, t).Inserted = FALSE
       /\ l # TrackableIn(ledger, t).VisitLog
       /\ LogIn(ledger, l).Time = OldLogOf(t).Time
       /\ InsertTrackableThrows(LogIn(ledger, l).User, t, l)
            = TemporalOrderViolationInsert
  /\ \E t \in TrackableIDs, l \in LogIDs :
       /\ HasTrackable(ledger, t) /\ HasLog(ledger, l)
       /\ TrackableIn(ledger, t).Inserted = TRUE
       /\ LogIn(ledger, l).Cache = OldLogOf(t).Cache
       /\ InstantOf(LogIn(ledger, l).Time) < InstantOf(OldLogOf(t).Time)
       /\ RemoveTrackableThrows(LogIn(ledger, l).User, t, l)
            = TemporalOrderViolationRemove

\* C7: RemoveTrackable(t, newLog) never succeeds, and changes nothing, when
\* newLog.Cache differs from the Cache of the log the trackable points to;
\* when every other check passes its error is the Conflict "different
\* caches".
C7_RemoveAcrossCaches ==
  \A ctx \in Identities, t \in TrackableIDs, l \in LogIDs :
    ( /\ HasTrackable(ledger, t) /\ HasLog(ledger, l)
      /\ LogIn(ledger, l).Cache # OldLogOf(t).Cache ) =>
        /\ RemoveTrackableThrows(ctx, t, l) # OK
        /\ RemoveTrackableCommits(ctx, t, l) = ledger
        /\ ( /\ TrackableIn(ledger, t).Inserted = TRUE
             /\ CallerIs(ctx, LogIn(ledger, l))
             /\ Later(t, l) ) =>
               RemoveTrackableThrows(ctx, t, l) = ConflictDifferentCaches

\* C7 witness: an inserted trackable and a later log of another cache, whose
\* author is refused with the Conflict
C7_Witness ==
  \E ctx \in Callers, t \in TrackableIDs, l \in LogIDs :
    /\ HasTrackable(ledger, t) /\ HasLog(ledger, l)
    /\ TrackableIn(ledger, t).Inserted = TRUE
    /\ CallerIs(ctx, LogIn(ledger, l))
    /\ Later(t, l)
    /\ LogIn(ledger, l).Cache # OldLogOf(t).Cache
    /\ RemoveTrackableThrows(ctx, t, l) = ConflictDifferentCaches

\* C8: InsertTrackable succeeds exactly when both records exist, the
\* trackable is out, oldLog.User = newLog.User, the caller is newLog.User and
\* newLog is later: the caches play no part.  RemoveTrackable succeeds
\* exactly when both records exist, the trackable is in, the caller is
\* newLog.User, newLog is later and newLog.Cache = oldLog.Cache: oldLog.User
\* plays no part.
C8_AsymmetricChecks ==
  \A ctx \in Identities, t \in TrackableIDs, l \in LogIDs :
    /\ InsertTrackableThrows(ctx, t, l) = OK <=>
         /\ HasLog(ledger, l) /\ HasTrackable(ledger, t)
         /\ TrackableIn(ledger, t).Inserted = FALSE
         /\ OldLogOf(t).User = LogIn(ledger, l).User
         /\ CallerIs(ctx, LogIn(ledger, l))
         /\ Later(t, l)
    /\ RemoveTrackableThrows(ctx, t, l) = OK <=>
         /\ HasLog(ledger, l) /\ HasTrackable(ledger, t)
         /\ TrackableIn(ledger, t).Inserted = TRUE
         /\ CallerIs(ctx, LogIn(ledger, l))
         /\ Later(t, l)
         /\ LogIn(ledger, l).Cache = OldLogOf(t).Cache

\* C8 witness: a trackable created in the log `made`, removed through the
\* log `out` of another author, and inserted again into a log of another
\* cache than that of `out`
C8_Witness ==
  \E t \in TrackableIDs, made \in LogIDs, out \in LogIDs :
    /\ HasTrackable(ledger, t) /\ HasLog(ledger, made) /\ HasLog(ledger, out)
    /\ TrackableIn(ledger, t).Inserted = TRUE
    /\ made # out
    /\ TrackableIn(ledger, t).VisitLog \notin {made, out}
    /\ Holds(ledger, made, t \o "-IN")
    /\ Holds(ledger, out, t \o "-OUT")
    /\ LogIn(ledger, made).User # LogIn(ledger, out).User
    /\ LogIn(ledger, out).Cache # OldLogOf(t).Cache

\* the checks of InsertTrackable that follow the two lookups, in their order
InsertChain(ctx, t, l) ==
  IF TrackableIn(ledger, t).Inserted # FALSE THEN ConflictAlreadyInserted
  ELSE IF OldLogOf(t).User # LogIn(ledger, l).User
       THEN PermissionDeniedNotOwned
  ELSE IF ~UserFound(ctx) THEN IdentityError
  ELSE IF getUserID(ctx) # LogIn(ledger, l).User
       THEN PermissionDeniedNotCaller
  ELSE IF ~Later(t, l) THEN TemporalOrderViolationInsert
  ELSE OK

\* the six failures of InsertTrackable are distinct
InsertFailuresDistinct(t, l) ==
  Cardinality({NotFoundLog(l), NotFoundTrackable(t), ConflictAlreadyInserted,
               PermissionDeniedNotOwned, PermissionDeniedNotCaller,
               TemporalOrderViolationInsert}) = 6

\* C9 as stated: InsertTrackable reports the first violated of: trackable
\* exists (NotFound); new log exists (NotFound); Inserted = false (Conflict);
\* oldLog.User = newLog.User (PermissionDenied); caller = newLog.User
\* (PermissionDenied); newLog.Time > oldLog.Time (TemporalOrderViolation).
C9_AsClaimed ==
  /\ \A t \in TrackableIDs, l \in LogIDs : InsertFailuresDistinct(t, l)
  /\ \A ctx \in Identities, t \in TrackableIDs, l \in LogIDs :
       InsertTrackableThrows(ctx, t, l) =
         IF ~HasTrackable(ledger, t) THEN NotFoundTrackable(t)
         ELSE IF ~HasLog(ledger, l) THEN NotFoundLog(l)
         ELSE InsertChain(ctx, t, l)

\* C9 as amended: InsertTrackable reports the first violated of: new log
\* exists (NotFound); trackable exists (NotFound); Inserted = false
\* (Conflict); oldLog.User = newLog.User (PermissionDenied); caller =
\* newLog.User (PermissionDenied); newLog.Time > oldLog.Time
\* (TemporalOrderViolation).  The six failures are distinct, and when both
\* records are absent the failure is the log's NotFound.
C9_InsertCheckOrder ==
  /\ \A t \in TrackableIDs, l \in LogIDs : InsertFailuresDistinct(t, l)
  /\ \A ctx \in Identities, t \in TrackableIDs, l \in LogIDs :
       InsertTrackableThrows(ctx, t, l) =
         IF ~HasLog(ledger, l) THEN NotFoundLog(l)
         ELSE IF ~HasTrackable(ledger, t) THEN NotFoundTrackable(t)
         ELSE InsertChain(ctx, t, l)

\* C9 witness: a state with an absent trackable and an absent log, where the
\* call naming both meets the log's NotFound, and with a removed trackable
\* for which calls meet each of the three failures that follow the Conflict
C9_Witness ==
  /\ \E ctx \in Callers, t \in TrackableIDs, l \in LogIDs :
       /\ ~HasTrackable(ledger, t) /\ ~HasLog(ledger, l)
       /\ InsertTrackableThrows(ctx, t, l) = NotFoundLog(l)
  /\ \E t \in TrackableIDs :
       /\ HasTrackable(ledger, t)
       /\ TrackableIn(ledger, t).Inserted = FALSE
       /\ \A e \in {PermissionDeniedNotOwned, PermissionDeniedNotCaller,
                    TemporalOrderViolationInsert} :
            \E ctx \in Callers, l \in LogIDs :
              InsertTrackableThrows(ctx, t, l) = e

\* the checks of RemoveTrackable that follow the two lookups, in their order
RemoveChain(ctx, t, l) ==
  IF TrackableIn(ledger, t).Inserted # TRUE THEN ConflictNotInserted
  ELSE IF ~UserFound(ctx) THEN IdentityError
  ELSE IF getUserID(ctx) # LogIn(ledger, l).User
       THEN PermissionDeniedNotCaller
  ELSE IF ~Later(t, l) THEN TemporalOrderViolationRemove
  ELSE IF LogIn(ledger, l).Cache # OldLogOf(t).Cache
       THEN ConflictDifferentCaches
  ELSE OK

\* C10 as stated: RemoveTrackable reports the first violated of: trackable
\* exists (NotFound); new log exists (NotFound); Inserted = true (Conflict);
\* caller = newLog.User (PermissionDenied); newLog.Time > oldLog.Time
\* (TemporalOrderViolation); newLog.Cache = oldLog.Cache (Conflict).
C10_AsClaimed ==
  \A ctx \in Identities, t \in TrackableIDs, l \in LogIDs :
    RemoveTrackableThrows(ctx, t, l) =
      IF ~HasTrackable(ledger, t) THEN NotFoundTrackable(t)
      ELSE IF ~HasLog(ledger, l) THEN NotFoundLog(l)
      ELSE RemoveChain(ctx, t, l)

\* C10 as amended: RemoveTrackable reports the first violated of: new log
\* exists (NotFound); trackable exists (NotFound); Inserted = true
\* (Conflict); caller = newLog.User (PermissionDenied); newLog.Time >
\* oldLog.Time (TemporalOrderViolation); newLog.Cache = oldLog.Cache
\* (Conflict).  When both records are absent the failure is the log's
\* NotFound.
C10_RemoveCheckOrder ==
  \A ctx \in Identities, t \in TrackableIDs, l \in LogIDs :
    RemoveTrackableThrows(ctx, t, l) =
      IF ~HasLog(ledger, l) THEN NotFoundLog(l)
      ELSE IF ~HasTrackable(ledger, t) THEN NotFoundTrackable(t)
      ELSE RemoveChain(ctx, t, l)

\* C10 witness: a state with an absent trackable and an absent log, where
\* the call naming both meets the log's NotFound, and with an inserted
\* trackable for which calls meet each of the three failures that follow the
\* first Conflict
C10_Witness ==
  /\ \E ctx \in Callers, t \in TrackableIDs, l \in LogIDs :
       /\ ~HasTrackable(ledger, t) /\ ~HasLog(ledger, l)
       /\ RemoveTrackableThrows(ctx, t, l) = NotFoundLog(l)
  /\ \E t \in TrackableIDs :
       /\ HasTrackable(ledger, t)
       /\ TrackableIn(ledger, t).Inserted = TRUE
       /\ \A e \in {PermissionDeniedNotCaller, TemporalOrderViolationRemove,
                    ConflictDifferentCaches} :
            \E ctx \in Callers, l \in LogIDs :
              RemoveTrackableThrows(ctx, t, l) = e

(***************************************************************************)
(* Properties of failure and of atomic commit.                             *)
(***************************************************************************)
HasCache(state, c) == makeCacheID(c) \in DOMAIN state
CacheIn(state, c) == deserializeCache(state[makeCacheID(c)])

\* the error kinds of the operations on caches
NotFoundCache(c) == "Cache " \o c \o " does not exist"
AlreadyExistsCache(c) == "Cache " \o c \o " already exists"
PermissionDeniedNotMaintainer == "Not maintainer"

\* an invocation that ended in `err` having issued `issued` and leaving the
\* world state `post` did, if it failed, no put or delete and changed nothing
FailsClean(err, issued, post) ==
  err # OK => (issued = <<>> /\ post = ledger)

\* C11: for every operation that writes and every caller, the unresolvable
\* one included, an invocation that ends in an error has issued no putState
\* or deleteState before the error, and the ledger after it is the ledger
\* before it.
C11_NoWriteBeforeError ==
  /\ \A ctx \in Identities, c \in CacheIDs :
       /\ \A p \in CachePayloads :
            /\ FailsClean(CreateCacheThrows(ctx, c),
                 CreateCacheIssued(ctx, c, p.Name, p.Description, p.GPSX,
                                   p.GPSY, p.Pass),
                 CreateCacheCommits(ctx, c, p.Name, p.Description, p.GPSX,
                                    p.GPSY, p.Pass))
            /\ \A r \in Reports :
                 FailsClean(UpdateCacheThrows(ctx, c),
                   UpdateCacheIssued(ctx, c, p.Name, p.Description, p.GPSX,
                                     p.GPSY, p.Pass, r),
                   UpdateCacheCommits(ctx, c, p.Name, p.Description, p.GPSX,
                                      p.GPSY, p.Pass, r))
       /\ FailsClean(DeleteCacheThrows(ctx, c), DeleteCacheIssued(ctx, c),
                     DeleteCacheCommits(ctx, c))
       /\ \A r \in Reports :
            FailsClean(ReportCacheThrows(ctx, c), ReportCacheIssued(ctx, c, r),
                       ReportCacheCommits(ctx, c, r))
       /\ \A l \in LogIDs, p \in TriedPasses, now \in Instants :
            FailsClean(CreateLogThrows(ctx, l, c, p),
                       CreateLogIssued(ctx, l, c, p, now),
                       CreateLogCommits(ctx, l, c, p, now))
  /\ \A ctx \in Identities, t \in TrackableIDs, l \in LogIDs :
       /\ \A n \in TrackableNames :
            FailsClean(CreateTrackableThrows(ctx, t, l),
                       CreateTrackableIssued(ctx, t, l, n),
                       CreateTrackableCommits(ctx, t, l, n))
       /\ FailsClean(InsertTrackableThrows(ctx, t, l),
                     InsertTrackableIssued(ctx, t, l),
                     InsertTrackableCommits(ctx, t, l))
       /\ FailsClean(RemoveTrackableThrows(ctx, t, l),
                     RemoveTrackableIssued(ctx, t, l),
                     RemoveTrackableCommits(ctx, t, l))

\* the tag that records where a trackable of a world state is
CurrentTag(state, t) ==
  IF TrackableIn(state, t).Inserted THEN t \o "-IN" ELSE t \o "-OUT"

\* both records of a trackable operation changed, or neither
BothOrNeither(post, t, l) ==
  \/ post = ledger
  \/ /\ post[makeTrackableID(t)] # getState(makeTrackableID(t))
     /\ post[makeLogID(l)] # getState(makeLogID(l))

\* C12: the trackable record and the tag in the target log are written
\* together or not at all.  In every committed state the log a trackable
\* points to exists and holds the trackable's current tag, every tag a log
\* holds is that of an existing trackable whose record points to that log or
\* to a later one, and every CreateTrackable, InsertTrackable and
\* RemoveTrackable changes both records or neither.
C12_WritesTogether ==
  /\ \A t \in TrackableIDs :
       HasTrackable(ledger, t) =>
         /\ HasLog(ledger, TrackableIn(ledger, t).VisitLog)
         /\ Holds(ledger, TrackableIn(ledger, t).VisitLog,
                  CurrentTag(ledger, t))
  /\ \A t \in TrackableIDs, l \in LogIDs :
       ( /\ HasLog(ledger, l)
         /\ \/ Holds(ledger, l, t \o "-IN")
            \/ Holds(ledger, l, t \o "-OUT") ) =>
           /\ HasTrackable(ledger, t)
           /\ \/ TrackableIn(ledger, t).VisitLog = l
              \/ InstantOf(LogIn(ledger, l).Time)
                   < InstantOf(OldLogOf(t).Time)
  /\ \A ctx \in Identities, t \in TrackableIDs, l \in LogIDs :
       /\ \A n \in TrackableNames :
            BothOrNeither(CreateTrackableCommits(ctx, t, l, n), t, l)
       /\ BothOrNeither(InsertTrackableCommits(ctx, t, l), t, l)
       /\ BothOrNeither(RemoveTrackableCommits(ctx, t, l), t, l)

\* C12 witness: one trackable created, removed and inserted again, another
\* one created and removed
C12_Witness ==
  \E t \in TrackableIDs, u \in TrackableIDs :
    /\ HasTrackable(ledger, t) /\ HasTrackable(ledger, u)
    /\ TrackableIn(ledger, t).Inserted = TRUE
    /\ TagCount(ledger, t \o "-IN") = 2
    /\ TagCount(ledger, t \o "-OUT") = 1
    /\ TrackableIn(ledger, u).Inserted = FALSE
    /\ TagCount(ledger, u \o "-OUT") = 1

\* the invocations that move a trackable
Transfers ==
  [op : {"InsertTrackable", "RemoveTrackable"}, ctx : Identities,
   t : TrackableIDs, l : LogIDs]

TransferThrows(x) ==
  IF x.op = "InsertTrackable" THEN InsertTrackableThrows(x.ctx, x.t, x.l)
  ELSE RemoveTrackableThrows(x.ctx, x.t, x.l)

TransferReads(x) ==
  IF x.op = "InsertTrackable" THEN InsertTrackableReads(x.t, x.l)
  ELSE RemoveTrackableReads(x.t, x.l)

TransferWrites(x) ==
  IF x.op = "InsertTrackable" THEN InsertTrackableWrites(x.t, x.l)
  ELSE RemoveTrackableWrites(x.t, x.l)

\* C13: of two InsertTrackable/RemoveTrackable invocations on the same
\* trackable that both pass their checks on the same world state, the one
\* delivered second does not commit, and the world state left is that of
\* executing the first one alone.
C13_RaceOnTrackable ==
  \A a \in Transfers :
    TransferThrows(a) = OK =>
      \A b \in Transfers :
        (b.t = a.t /\ TransferThrows(b) = OK) =>
          /\ ~ValidAfter(TransferReads(b), TransferWrites(a))
          /\ CommittedInOrder(TransferWrites(a), TransferReads(b),
                              TransferWrites(b))
               = Commit(ledger, TransferWrites(a))

\* C13 witness: two different invocations on one trackable, into different
\* logs, that both pass their checks on the current world state
C13_Witness ==
  \E a \in Transfers, b \in Transfers :
    /\ a.t = b.t /\ a.l # b.l
    /\ TransferThrows(a) = OK /\ TransferThrows(b) = OK
    /\ ~ValidAfter(TransferReads(b), TransferWrites(a))

(***************************************************************************)
(* Properties of the cache registry.  Each is stated for every invocation  *)
(* that can be made in a reachable world state: any caller of Identities,  *)
(* any cache id and any payload.                                           *)
(***************************************************************************)
\* the caller resolves to the Maintainer of a cache of a world state
MaintainedBy(state, c, ctx) ==
  UserFound(ctx) /\ getUserID(ctx) = CacheIn(state, c).Maintainer

\* a cache of a world state as the caller may see it
Visible(state, c, ctx) ==
  IF MaintainedBy(state, c, ctx) THEN CacheIn(state, c)
  ELSE [CacheIn(state, c) EXCEPT !.Pass = ""]

\* the outcome of the operations reserved to the Maintainer
MaintainerOnly(ctx, c) ==
  IF ~HasCache(ledger, c) THEN NotFoundCache(c)
  ELSE IF ~UserFound(ctx) THEN IdentityError
  ELSE IF ~MaintainedBy(ledger, c, ctx) THEN PermissionDeniedNotMaintainer
  ELSE OK

\* the record CreateCache is to store
Created(ctx, c, p) ==
  [ID |-> c, Name |-> p.Name, Description |-> p.Description, GPSX |-> p.GPSX,
   GPSY |-> p.GPSY, Report |-> "", Pass |-> p.Pass,
   Maintainer |-> getUserID(ctx)]

\* the stored caches, as ids
StoredCaches(state) == {c \in CacheIDs : HasCache(state, c)}

\* C14: to a caller who resolves, GetCache, every element of GetAllCaches
\* and the value ReportCache returns carry the stored Pass if the caller is
\* the cache's Maintainer and Pass "" if not, the other fields as stored (as
\* reported, for ReportCache); GetAllCaches returns one element per stored
\* cache.  A successful CreateCache stores Maintainer = the creating
\* identity, so that the cache read next shows its Pass to that identity
\* only.
C14_PassRedaction ==
  /\ \A ctx \in Callers :
       /\ \A c \in StoredCaches(ledger) :
            /\ GetCacheThrows(ctx, c) = OK
            /\ GetCacheReturns(ctx, c) = Visible(ledger, c, ctx)
            /\ \A r \in Reports :
                 /\ ReportCacheThrows(ctx, c) = OK
                 /\ ReportCacheReturns(ctx, c, r) =
                      [Visible(ledger, c, ctx) EXCEPT !.Report = r]
       /\ GetAllCachesThrows(ctx) = OK
       /\ LET all == GetAllCachesReturns(ctx)
          IN /\ Len(all) = Cardinality(StoredCaches(ledger))
             /\ \A c \in StoredCaches(ledger) :
                  \E i \in 1..Len(all) : all[i] = Visible(ledger, c, ctx)
  /\ \A ctx \in Callers, c \in CacheIDs, p \in CachePayloads :
       CreateCacheThrows(ctx, c) = OK =>
         LET post == CreateCacheCommits(ctx, c, p.Name, p.Description, p.GPSX,
                                        p.GPSY, p.Pass)
         IN /\ CacheIn(post, c).Maintainer = getUserID(ctx)
            /\ \A reader \in Callers :
                 Visible(post, c, reader).Pass
                   = IF reader = ctx THEN p.Pass ELSE ""

\* C14 witness: two stored caches with different Maintainers, so that
\* GetAllCaches shows each caller one Pass and hides the other
C14_Witness ==
  /\ StoredCaches(ledger) = CacheIDs
  /\ \E c \in CacheIDs, d \in CacheIDs, ctx \in Callers :
       /\ MaintainedBy(ledger, c, ctx) /\ ~MaintainedBy(ledger, d, ctx)
       /\ CacheIn(ledger, d).Pass # ""
       /\ GetCacheReturns(ctx, c).Pass = CacheIn(ledger, c).Pass
       /\ GetCacheReturns(ctx, d).Pass = ""
       /\ \E i \in 1..2 : GetAllCachesReturns(ctx)[i].Pass = ""

\* C15: GetCachePass fails with NotFound when the cache is absent, else
\* with PermissionDenied for a caller who is not the Maintainer (the identity
\* error for a caller who does not resolve), and returns the stored Pass to
\* the Maintainer.
C15_GetCachePass ==
  \A ctx \in Identities, c \in CacheIDs :
    /\ GetCachePassThrows(ctx, c) = MaintainerOnly(ctx, c)
    /\ GetCachePassThrows(ctx, c) = OK =>
         GetCachePassReturns(c) = CacheIn(ledger, c).Pass

\* C15 witness: a stored cache whose Pass its Maintainer gets and another
\* caller is denied, and an absent cache, NotFound to its former Maintainer
C15_Witness ==
  /\ \E c \in CacheIDs, ctx \in Callers, other \in Callers :
       /\ HasCache(ledger, c)
       /\ GetCachePassThrows(ctx, c) = OK
       /\ GetCachePassReturns(c) = "changed"
       /\ GetCachePassThrows(other, c) = PermissionDeniedNotMaintainer
  /\ \E c \in CacheIDs :
       /\ ~HasCache(ledger, c)
       /\ GetCachePassThrows(SeedCache(c).Maintainer, c) = NotFoundCache(c)

\* C16: CreateCache on an id that is stored fails with AlreadyExists for
\* every payload and caller and changes nothing; a successful CreateCache
\* stores the payload with Maintainer = the caller and Report = "" under the
\* id, so that the id is stored afterwards, and changes no other record.
C16_CreateCache ==
  \A ctx \in Identities, c \in CacheIDs, p \in CachePayloads :
    LET err == CreateCacheThrows(ctx, c)
        post == CreateCacheCommits(ctx, c, p.Name, p.Description, p.GPSX,
                                   p.GPSY, p.Pass)
    IN /\ HasCache(ledger, c) =>
            (err = AlreadyExistsCache(c) /\ post = ledger)
       /\ err = IF HasCache(ledger, c) THEN AlreadyExistsCache(c)
                ELSE IF ~UserFound(ctx) THEN IdentityError
                ELSE OK
       /\ err = OK =>
            /\ HasCache(post, c)
            /\ CacheIn(post, c) = Created(ctx, c, p)
            /\ \A k \in DOMAIN ledger : post[k] = ledger[k]
            /\ DOMAIN post = DOMAIN ledger \cup {makeCacheID(c)}

\* C16 witness: a cache as the second caller created it, which no caller can
\* create again
C16_Witness ==
  \E c \in CacheIDs :
    /\ HasCache(ledger, c)
    /\ \E p \in CachePayloads :
         /\ p.Pass = "changed"
         /\ CacheIn(ledger, c) = Created("b\"ob", c, p)
    /\ \A ctx \in Identities :
         CreateCacheThrows(ctx, c) = AlreadyExistsCache(c)

\* an operation on caches leaves the Maintainer of every cache that is
\* stored before and after it as it was
KeepsMaintainers(post) ==
  \A c \in CacheIDs :
    (HasCache(ledger, c) /\ HasCache(post, c)) =>
      CacheIn(post, c).Maintainer = CacheIn(ledger, c).Maintainer

\* C17 as stated: once a cache id has been created, the Maintainer stored
\* under the id never takes another value.  The ids c1 and c2 were created
\* by the Maintainer of SeedCache.
C17_AsClaimed ==
  \A c \in CacheIDs :
    HasCache(ledger, c) =>
      CacheIn(ledger, c).Maintainer = SeedCache(c).Maintainer

\* C17 as amended: no CreateCache, UpdateCache, ReportCache or DeleteCache
\* call by any caller changes the Maintainer of a stored cache: the
\* Maintainer stored under an id stays the same for as long as the cache is
\* not deleted.
C17_MaintainerKeptWhileStored ==
  \A ctx \in Identities, c \in CacheIDs :
    /\ KeepsMaintainers(DeleteCacheCommits(ctx, c))
    /\ \A r \in Reports : KeepsMaintainers(ReportCacheCommits(ctx, c, r))
    /\ \A p \in CachePayloads :
         /\ KeepsMaintainers(CreateCacheCommits(ctx, c, p.Name, p.Description,
                                                p.GPSX, p.GPSY, p.Pass))
         /\ \A r \in Reports :
              KeepsMaintainers(UpdateCacheCommits(ctx, c, p.Name,
                                                  p.Description, p.GPSX,
                                                  p.GPSY, p.Pass, r))

\* C17 witness: a cache that was deleted, created anew by the second caller,
\* and then updated and reported
C17_Witness ==
  \E c \in CacheIDs :
    /\ HasCache(ledger, c)
    /\ CacheIn(ledger, c).Maintainer = getUserID("b\"ob")
    /\ CacheIn(ledger, c).Name = "Renamed"
    /\ CacheIn(ledger, c).Report = "broken"

\* C18: UpdateCache fails with NotFound if the cache is absent, else with
\* PermissionDenied unless the caller is the stored Maintainer (the identity
\* error for a caller who does not resolve), and then changes nothing; on
\* success the stored record has the arguments as Name, Description, GPSX,
\* GPSY, Pass and Report and its ID and Maintainer as before, and no other
\* record changes.
C18_UpdateCache ==
  \A ctx \in Identities, c \in CacheIDs, p \in CachePayloads, r \in Reports :
    LET err == UpdateCacheThrows(ctx, c)
        post == UpdateCacheCommits(ctx, c, p.Name, p.Description, p.GPSX,
                                   p.GPSY, p.Pass, r)
    IN /\ err = MaintainerOnly(ctx, c)
       /\ err # OK => post = ledger
       /\ err = OK =>
            /\ SameExceptAt(post, {makeCacheID(c)})
            /\ CacheIn(post, c) =
                 [ID |-> CacheIn(ledger, c).ID, Name |-> p.Name,
                  Description |-> p.Description, GPSX |-> p.GPSX,
                  GPSY |-> p.GPSY, Report |-> r, Pass |-> p.Pass,
                  Maintainer |-> CacheIn(ledger, c).Maintainer]

\* C18 witness: a cache whose every updatable field differs from what it was
\* created with, next to one that is as created
C18_Witness ==
  \E c \in CacheIDs, d \in CacheIDs :
    /\ HasCache(ledger, c) /\ HasCache(ledger, d)
    /\ CacheIn(ledger, d) = SeedCache(d)
    /\ LET cache == CacheIn(ledger, c)
       IN /\ cache.ID = c
          /\ cache.Maintainer = SeedCache(c).Maintainer
          /\ cache.Name # SeedCache(c).Name
          /\ cache.Description # SeedCache(c).Description
          /\ cache.GPSX # SeedCache(c).GPSX
          /\ cache.GPSY # SeedCache(c).GPSY
          /\ cache.Pass # SeedCache(c).Pass
          /\ cache.Report # SeedCache(c).Report

\* C19: DeleteCache fails with NotFound if the cache is absent, else with
\* PermissionDenied unless the caller is its Maintainer (the identity error
\* for a caller who does not resolve); on success the record is gone and no
\* other record changes.  A cache that is not stored does not exist for
\* CacheExists, GetCache and GetCachePass, no UpdateCache, ReportCache or
\* DeleteCache brings it back, and a CreateCache under its id stores the
\* caller and the arguments only.
C19_DeleteCache ==
  \A ctx \in Identities, c \in CacheIDs :
    /\ DeleteCacheThrows(ctx, c) = MaintainerOnly(ctx, c)
    /\ DeleteCacheThrows(ctx, c) # OK => DeleteCacheCommits(ctx, c) = ledger
    /\ DeleteCacheThrows(ctx, c) = OK =>
         LET post == DeleteCacheCommits(ctx, c)
         IN /\ DOMAIN post = DOMAIN ledger \ {makeCacheID(c)}
            /\ \A k \in DOMAIN post : post[k] = ledger[k]
    /\ ~HasCache(ledger, c) =>
         /\ ~CacheExists(c)
         /\ GetCacheThrows(ctx, c) = NotFoundCache(c)
         /\ GetCachePassThrows(ctx, c) = NotFoundCache(c)
         /\ ~HasCache(DeleteCacheCommits(ctx, c), c)
         /\ \A r \in Reports : ~HasCache(ReportCacheCommits(ctx, c, r), c)
         /\ \A p \in CachePayloads :
              /\ \A r \in Reports :
                   ~HasCache(UpdateCacheCommits(ctx, c, p.Name, p.Description,
                                                p.GPSX, p.GPSY, p.Pass, r), c)
              /\ LET post == CreateCacheCommits(ctx, c, p.Name, p.Description,
                                                p.GPSX, p.GPSY, p.Pass)
                 IN HasCache(post, c) => CacheIn(post, c) = Created(ctx, c, p)

\* C19 witness: a deleted cache next to one that was deleted and then
\* created by the second caller
C19_Witness ==
  \E c \in CacheIDs, d \in CacheIDs :
    /\ ~HasCache(ledger, c)
    /\ HasCache(ledger, d)
    /\ CacheIn(ledger, d).Maintainer = getUserID("b\"ob")

\* C20: ReportCache fails with NotFound if the cache is absent and succeeds
\* for every caller who resolves, Maintainer or not (the identity error
\* otherwise); on success the stored record is the previous one with the
\* new Report, its Pass as stored, no other record changes, and the returned
\* record is the stored one with Pass "" for a caller who is not the
\* Maintainer.
C20_ReportCache ==
  \A ctx \in Identities, c \in CacheIDs, r \in Reports :
    LET err == ReportCacheThrows(ctx, c)
        post == ReportCacheCommits(ctx, c, r)
    IN /\ err = IF ~HasCache(ledger, c) THEN NotFoundCache(c)
                ELSE IF ~UserFound(ctx) THEN IdentityError
                ELSE OK
       /\ err = OK =>
            /\ SameExceptAt(post, {makeCacheID(c)})
            /\ CacheIn(post, c) = [CacheIn(ledger, c) EXCEPT !.Report = r]
            /\ ReportCacheReturns(ctx, c, r) = Visible(post, c, ctx)

\* C20 witness: a reported cache with a Pass, which a caller who is not its
\* Maintainer can report again and gets back without the Pass
C20_Witness ==
  \E c \in CacheIDs, ctx \in Callers :
    /\ HasCache(ledger, c)
    /\ CacheIn(ledger, c).Report = "broken"
    /\ CacheIn(ledger, c).Pass # ""
    /\ ~MaintainedBy(ledger, c, ctx)
    /\ ReportCacheThrows(ctx, c) = OK
    /\ CacheIn(ReportCacheCommits(ctx, c, ""), c).Pass = CacheIn(ledger, c).Pass
    /\ ReportCacheReturns(ctx, c, "").Pass = ""

(***************************************************************************)
(* Properties of the visit logs and of the trackable records.              *)
(***************************************************************************)
AlreadyExistsLog(l) == "Log " \o l \o " already exists"
InvalidPassword == "Wrong Pass!"

\* C21: CreateLog fails with NotFound if the cache is absent, else with
\* AlreadyExists if the log id is taken, else with InvalidPassword if the
\* Pass is not the cache's stored Pass (else with the identity error if the
\* caller does not resolve); a call that succeeds, by the Maintainer or by
\* anyone else, stores the log {ID, User: caller, Cache, Trackables: [],
\* Time: the clock's reading} under its id and changes no other record.
C21_CreateLog ==
  \A ctx \in Identities, l \in LogIDs, c \in CacheIDs, pass \in TriedPasses :
    LET err == CreateLogThrows(ctx, l, c, pass)
    IN /\ err = IF ~HasCache(ledger, c) THEN NotFoundCache(c)
                ELSE IF HasLog(ledger, l) THEN AlreadyExistsLog(l)
                ELSE IF pass # CacheIn(ledger, c).Pass THEN InvalidPassword
                ELSE IF ~UserFound(ctx) THEN IdentityError
                ELSE OK
       /\ \A now \in Instants :
            LET post == CreateLogCommits(ctx, l, c, pass, now)
            IN IF err # OK THEN post = ledger
               ELSE /\ DOMAIN post = DOMAIN ledger \cup {makeLogID(l)}
                    /\ \A k \in DOMAIN ledger : post[k] = ledger[k]
                    /\ LogIn(post, l) =
                         [ID |-> l, Trackables |-> <<>>,
                          User |-> getUserID(ctx), Cache |-> c,
                          Time |-> toISOString(now)]

\* C21 witness: a log signed at a cache by a caller who is not its
\* Maintainer, the cache deleted since: the same call again fails with
\* NotFound, at the other cache with AlreadyExists whatever the Pass, and a
\* free log id can be signed there with the stored Pass only
C21_Witness ==
  \E l \in LogIDs, c \in CacheIDs, d \in CacheIDs, ctx \in Callers :
    /\ HasLog(ledger, l) /\ HasCache(ledger, c) /\ ~HasCache(ledger, d)
    /\ LogIn(ledger, l).Cache = d
    /\ LogIn(ledger, l).User = getUserID(ctx)
    /\ ~MaintainedBy(ledger, c, ctx)
    /\ CreateLogThrows(ctx, l, d, "secret") = NotFoundCache(d)
    /\ CreateLogThrows(ctx, l, c, "wrong") = AlreadyExistsLog(l)
    /\ \E m \in LogIDs :
         /\ CreateLogThrows(ctx, m, c, "wrong") = InvalidPassword
         /\ CreateLogThrows(ctx, m, c, CacheIn(ledger, c).Pass) = OK

\* the tags that record a movement of a trackable
MovementTags(t) == {t \o "-IN", t \o "-OUT"}

\* the logs whose stored value differs between the current world state and
\* another
ChangedLogs(post) ==
  {l \in LogIDs : HasLog(ledger, l) /\
                  (~HasLog(post, l) \/ post[makeLogID(l)] # ledger[makeLogID(l)])}

\* a stored log is in `post` with its ID, User, Cache and Time, its
\* Trackables the same or longer by one tag of `tags`
LogGrows(post, l, tags) ==
  /\ HasLog(post, l)
  /\ LET old == LogIn(ledger, l)
         new == LogIn(post, l)
     IN /\ new.ID = old.ID /\ new.User = old.User
        /\ new.Cache = old.Cache /\ new.Time = old.Time
        /\ \/ new.Trackables = old.Trackables
           \/ \E tag \in tags : new.Trackables = Append(old.Trackables, tag)

\* every log of the current world state grows so, and at most one of them
\* is longer
LogsGrow(post, tags) ==
  \/ post = ledger
  \/ /\ \A l \in LogIDs : HasLog(ledger, l) => LogGrows(post, l, tags)
     /\ Cardinality(ChangedLogs(post)) <= 1

\* C22: whatever is invoked by whomever, every stored log stays stored with
\* its ID, User, Cache and Time; no operation on caches and no CreateLog
\* changes the Trackables of a stored log, and a CreateTrackable,
\* InsertTrackable or RemoveTrackable of t appends at most one tag, t-IN or
\* t-OUT, to one log and none if it fails.
C22_LogsAppendOnly ==
  \A ctx \in Identities :
    /\ \A c \in CacheIDs :
         /\ LogsGrow(DeleteCacheCommits(ctx, c), {})
         /\ \A r \in Reports : LogsGrow(ReportCacheCommits(ctx, c, r), {})
         /\ \A p \in CachePayloads :
              /\ LogsGrow(CreateCacheCommits(ctx, c, p.Name, p.Description,
                                             p.GPSX, p.GPSY, p.Pass), {})
              /\ \A r \in Reports :
                   LogsGrow(UpdateCacheCommits(ctx, c, p.Name, p.Description,
                                               p.GPSX, p.GPSY, p.Pass, r), {})
         /\ \A l \in LogIDs, pass \in TriedPasses, now \in Instants :
              LogsGrow(CreateLogCommits(ctx, l, c, pass, now), {})
    /\ \A t \in TrackableIDs, l \in LogIDs :
         /\ \A n \in TrackableNames :
              LogsGrow(CreateTrackableCommits(ctx, t, l, n),
                       IF CreateTrackableThrows(ctx, t, l) = OK
                       THEN MovementTags(t) ELSE {})
         /\ LogsGrow(InsertTrackableCommits(ctx, t, l),
                     IF InsertTrackableThrows(ctx, t, l) = OK
                     THEN MovementTags(t) ELSE {})
         /\ LogsGrow(RemoveTrackableCommits(ctx, t, l),
                     IF RemoveTrackableThrows(ctx, t, l) = OK
                     THEN MovementTags(t) ELSE {})

\* C22 witness: a log that holds the tag of one trackable and is about to get
\* the tag of another
C22_Witness ==
  \E l \in LogIDs, t \in TrackableIDs, ctx \in Callers :
    /\ HasLog(ledger, l)
    /\ Len(LogIn(ledger, l).Trackables) = 1
    /\ InsertTrackableThrows(ctx, t, l) = OK
    /\ LogIn(InsertTrackableCommits(ctx, t, l), l).Trackables =
         Append(LogIn(ledger, l).Trackables, t \o "-IN")

\* every trackable of the current world state is in `post` with its ID and
\* its Name
TrackablesStay(post) ==
  \/ post = ledger
  \/ \A t \in TrackableIDs :
       HasTrackable(ledger, t) =>
         /\ HasTrackable(post, t)
         /\ TrackableIn(post, t).ID = TrackableIn(ledger, t).ID
         /\ TrackableIn(post, t).Name = TrackableIn(ledger, t).Name

\* C23: whatever is invoked by whomever, every stored trackable stays
\* stored with its ID and Name; a stored trackable answers TrackableExists
\* with true, and a successful InsertTrackable or RemoveTrackable changes
\* at most its Inserted and VisitLog.
C23_TrackablesStay ==
  /\ \A t \in TrackableIDs : HasTrackable(ledger, t) <=> TrackableExists(t)
  /\ \A ctx \in Identities :
       /\ \A c \in CacheIDs :
            /\ TrackablesStay(DeleteCacheCommits(ctx, c))
            /\ \A r \in Reports :
                 TrackablesStay(ReportCacheCommits(ctx, c, r))
            /\ \A p \in CachePayloads :
                 /\ TrackablesStay(CreateCacheCommits(ctx, c, p.Name,
                                     p.Description, p.GPSX, p.GPSY, p.Pass))
                 /\ \A r \in Reports :
                      TrackablesStay(UpdateCacheCommits(ctx, c, p.Name,
                                       p.Description, p.GPSX, p.GPSY, p.Pass,
                                       r))
            /\ \A l \in LogIDs, pass \in TriedPasses, now \in Instants :
                 TrackablesStay(CreateLogCommits(ctx, l, c, pass, now))
       /\ \A t \in TrackableIDs, l \in LogIDs :
            /\ \A n \in TrackableNames :
                 TrackablesStay(CreateTrackableCommits(ctx, t, l, n))
            /\ TrackablesStay(InsertTrackableCommits(ctx, t, l))
            /\ TrackablesStay(RemoveTrackableCommits(ctx, t, l))

\* C23 witness: a trackable that has been removed and inserted again, with
\* the ID and the Name it was created with
C23_Witness ==
  \E t \in TrackableIDs :
    /\ HasTrackable(ledger, t)
    /\ TagCount(ledger, t \o "-OUT") = 1
    /\ TagCount(ledger, t \o "-IN") = 2
    /\ TrackableIn(ledger, t).ID = t
    /\ TrackableIn(ledger, t).Name \in TrackableNames

\* the Inserted and VisitLog of the trackables other than those of
\* `touched` are in `post` what they are in the current world state
PlacesKept(post, touched) ==
  \/ post = ledger
  \/ \A u \in TrackableIDs \ touched :
       HasTrackable(ledger, u) =>
         /\ HasTrackable(post, u)
         /\ TrackableIn(post, u).VisitLog = TrackableIn(ledger, u).VisitLog
         /\ TrackableIn(post, u).Inserted = TrackableIn(ledger, u).Inserted

\* a call on trackable t with log l leaves t.VisitLog = l if it succeeds
\* and the world state as it is if it fails, and leaves the other
\* trackables where they are
Placed(err, post, t, l) ==
  /\ IF err = OK THEN TrackableIn(post, t).VisitLog = l ELSE post = ledger
  /\ PlacesKept(post, {t})

\* C24: a successful CreateTrackable, InsertTrackable or RemoveTrackable
\* on t leaves t.VisitLog = the log id it was passed; a failed call, a call
\* on another trackable, a CreateLog and an operation on caches leave
\* t.VisitLog and t.Inserted as they are.  Hence t.VisitLog is the log id
\* of the most recent successful call on t.
C24_VisitLogIsLastLog ==
  \A ctx \in Identities :
    /\ \A c \in CacheIDs :
         /\ PlacesKept(DeleteCacheCommits(ctx, c), {})
         /\ \A r \in Reports : PlacesKept(ReportCacheCommits(ctx, c, r), {})
         /\ \A p \in CachePayloads :
              /\ PlacesKept(CreateCacheCommits(ctx, c, p.Name, p.Description,
                                               p.GPSX, p.GPSY, p.Pass), {})
              /\ \A r \in Reports :
                   PlacesKept(UpdateCacheCommits(ctx, c, p.Name,
                                p.Description, p.GPSX, p.GPSY, p.Pass, r), {})
         /\ \A l \in LogIDs, pass \in TriedPasses, now \in Instants :
              PlacesKept(CreateLogCommits(ctx, l, c, pass, now), {})
    /\ \A t \in TrackableIDs, l \in LogIDs :
         /\ \A n \in TrackableNames :
              Placed(CreateTrackableThrows(ctx, t, l),
                     CreateTrackableCommits(ctx, t, l, n), t, l)
         /\ Placed(InsertTrackableThrows(ctx, t, l),
                   InsertTrackableCommits(ctx, t, l), t, l)
         /\ Placed(RemoveTrackableThrows(ctx, t, l),
                   RemoveTrackableCommits(ctx, t, l), t, l)

\* C24 witness: a removed trackable that points to the log with its OUT
\* tag, not to the log it was created in, while a call that fails and one
\* that succeeds can be made on it
C24_Witness ==
  \E t \in TrackableIDs, l \in LogIDs, m \in LogIDs, ctx \in Callers :
    /\ HasTrackable(ledger, t)
    /\ ~TrackableIn(ledger, t).Inserted
    /\ TrackableIn(ledger, t).VisitLog = l
    /\ Holds(ledger, l, t \o "-OUT")
    /\ ~Holds(ledger, l, t \o "-IN")
    /\ RemoveTrackableThrows(ctx, t, m) = ConflictNotInserted
    /\ InsertTrackableThrows(ctx, t, m) = OK

\* C25 as stated: GetLog of a stored log succeeds and returns the stored
\* record, and GetLog of an id with no log fails with NotFound.
C25_GetLogLooksUp ==
  \A l \in LogIDs :
    IF HasLog(ledger, l)
    THEN GetLogThrows(l) = OK /\ GetLogReturns(l) = LogIn(ledger, l)
    ELSE GetLogThrows(l) = NotFoundLog(l)

(***************************************************************************)
(* Properties of the key space.                                            *)
(***************************************************************************)
\* a list holds exactly the elements of a set, each once
ListsExactly(list, set) ==
  /\ Len(list) = Cardinality(set)
  /\ \A e \in set : \E i \in 1..Len(list) : list[i] = e

\* each Exists check sees only the records of its own kind
OwnKindOnly ==
  \A id \in SharedIDs :
    /\ CacheExists(id) <=> HasCache(ledger, id)
    /\ LogExists(id) <=> HasLog(ledger, id)
    /\ TrackableExists(id) <=> HasTrackable(ledger, id)

\* the records of each kind stored under the given ids, as the caller is
\* to see them
CachesUnder(ids, ctx) ==
  {Visible(ledger, c, ctx) : c \in {id \in ids : HasCache(ledger, id)}}
LogsUnder(ids) == {LogIn(ledger, l) : l \in {id \in ids : HasLog(ledger, id)}}
TrackablesUnder(ids) ==
  {TrackableIn(ledger, t) : t \in {id \in ids : HasTrackable(ledger, id)}}

\* C26 as stated: a cache, a log and a trackable of the same id do not
\* affect one another's Exists check, and GetAllCaches, GetAllLogs and
\* GetAllTrackables return exactly the stored records of their kind, each
\* once (caches as the caller may see them), the empty list if there are
\* none.
C26_Namespaces ==
  /\ OwnKindOnly
  /\ \A ctx \in Callers :
       /\ GetAllCachesThrows(ctx) = OK
       /\ ListsExactly(GetAllCachesReturns(ctx), CachesUnder(SharedIDs, ctx))
  /\ ListsExactly(GetAllLogsReturns, LogsUnder(SharedIDs))
  /\ ListsExactly(GetAllTrackablesReturns, TrackablesUnder(SharedIDs))

(***************************************************************************)
(* Properties of redaction and of the caller's identity.                   *)
(***************************************************************************)
\* every cache of the current world state is in `post` with its Pass
PassesKept(post) ==
  \/ post = ledger
  \/ \A c \in CacheIDs :
       HasCache(ledger, c) =>
         HasCache(post, c) /\ CacheIn(post, c).Pass = CacheIn(ledger, c).Pass

\* C27: no GetCache, GetAllCaches, GetCachePass or ReportCache call, by the
\* Maintainer or by anyone else, changes the stored Pass of a cache; the
\* stored Pass is the one the last successful CreateCache or UpdateCache
\* was given, and it is what GetCachePass returns to the Maintainer.
C27_RedactionStaysOut ==
  \A ctx \in Identities, c \in CacheIDs :
    /\ PassesKept(Committed(GetCacheThrows(ctx, c), GetCacheWrites(ctx, c)))
    /\ PassesKept(Committed(GetAllCachesThrows(ctx), GetAllCachesWrites(ctx)))
    /\ PassesKept(Committed(GetCachePassThrows(ctx, c),
                            GetCachePassWrites(ctx, c)))
    /\ \A r \in Reports : PassesKept(ReportCacheCommits(ctx, c, r))
    /\ GetCachePassThrows(ctx, c) = OK =>
         GetCachePassReturns(c) = CacheIn(ledger, c).Pass
    /\ \A p \in CachePayloads :
         /\ CreateCacheThrows(ctx, c) = OK =>
              CacheIn(CreateCacheCommits(ctx, c, p.Name, p.Description,
                                         p.GPSX, p.GPSY, p.Pass), c).Pass
                = p.Pass
         /\ \A r \in Reports :
              UpdateCacheThrows(ctx, c) = OK =>
                CacheIn(UpdateCacheCommits(ctx, c, p.Name, p.Description,
                                           p.GPSX, p.GPSY, p.Pass, r), c).Pass
                  = p.Pass

\* C27 witness: a cache with an updated Pass that has been reported, which
\* a caller who is not its Maintainer reads and reports without the Pass
\* while the Maintainer gets the Pass
C27_Witness ==
  \E c \in CacheIDs, ctx \in Callers, m \in Callers :
    /\ HasCache(ledger, c)
    /\ CacheIn(ledger, c).Pass = "changed"
    /\ CacheIn(ledger, c).Report = "broken"
    /\ ~MaintainedBy(ledger, c, ctx) /\ MaintainedBy(ledger, c, m)
    /\ GetCacheThrows(ctx, c) = OK /\ GetCacheReturns(ctx, c).Pass = ""
    /\ ReportCacheThrows(ctx, c) = OK
    /\ ReportCacheReturns(ctx, c, "").Pass = ""
    /\ GetCachePassThrows(m, c) = OK /\ GetCachePassReturns(c) = "changed"

\* the caller whose identity does not resolve
Anonymous == ""

\* an invocation by Anonymous fails, and with the identity error wherever
\* some caller who resolves succeeds with the same arguments
Unauthenticated(err, succeeds) ==
  /\ err # OK
  /\ succeeds => err = IdentityError

\* C28: invoked by the caller whose identity does not resolve, CreateCache,
\* UpdateCache, DeleteCache, GetCachePass, GetCache, ReportCache, CreateLog,
\* CreateTrackable, InsertTrackable and RemoveTrackable fail, with the
\* identity error wherever a caller who resolves succeeds with the same
\* arguments, and GetAllCaches fails with it unless no cache is stored; no
\* stored cache has Maintainer "" and no stored log has User "".
C28_NoAnonymousSuccess ==
  /\ \A c \in CacheIDs :
       /\ Unauthenticated(CreateCacheThrows(Anonymous, c),
                          \E ctx \in Callers : CreateCacheThrows(ctx, c) = OK)
       /\ Unauthenticated(UpdateCacheThrows(Anonymous, c),
                          \E ctx \in Callers : UpdateCacheThrows(ctx, c) = OK)
       /\ Unauthenticated(DeleteCacheThrows(Anonymous, c),
                          \E ctx \in Callers : DeleteCacheThrows(ctx, c) = OK)
       /\ Unauthenticated(GetCachePassThrows(Anonymous, c),
                          \E ctx \in Callers : GetCachePassThrows(ctx, c) = OK)
       /\ Unauthenticated(GetCacheThrows(Anonymous, c),
                          \E ctx \in Callers : GetCacheThrows(ctx, c) = OK)
       /\ Unauthenticated(ReportCacheThrows(Anonymous, c),
                          \E ctx \in Callers : ReportCacheThrows(ctx, c) = OK)
       /\ \A l \in LogIDs, pass \in TriedPasses :
            Unauthenticated(CreateLogThrows(Anonymous, l, c, pass),
                            \E ctx \in Callers :
                              CreateLogThrows(ctx, l, c, pass) = OK)
       /\ HasCache(ledger, c) =>
            /\ CacheIn(ledger, c).Maintainer # ""
            /\ GetAllCachesThrows(Anonymous) = IdentityError
  /\ \A t \in TrackableIDs, l \in LogIDs :
       /\ Unauthenticated(CreateTrackableThrows(Anonymous, t, l),
                          \E ctx \in Callers :
                            CreateTrackableThrows(ctx, t, l) = OK)
       /\ Unauthenticated(InsertTrackableThrows(Anonymous, t, l),
                          \E ctx \in Callers :
                            InsertTrackableThrows(ctx, t, l) = OK)
       /\ Unauthenticated(RemoveTrackableThrows(Anonymous, t, l),
                          \E ctx \in Callers :
                            RemoveTrackableThrows(ctx, t, l) = OK)
  /\ \A l \in LogIDs : HasLog(ledger, l) => LogIn(ledger, l).User # ""

\* C28 witness: a world state in which a cache can be created, a cache
\* updated, a log signed and a trackable removed by callers who resolve,
\* and each of these calls by the unresolvable caller gets the identity
\* error
C28_Witness ==
  \E c \in CacheIDs, d \in CacheIDs, t \in TrackableIDs, l \in LogIDs,
     ctx \in Callers :
    /\ ~HasCache(ledger, c) /\ HasCache(ledger, d)
    /\ CreateCacheThrows(ctx, c) = OK
    /\ CreateCacheThrows(Anonymous, c) = IdentityError
    /\ UpdateCacheThrows(Anonymous, d) = IdentityError
    /\ GetAllCachesThrows(Anonymous) = IdentityError
    /\ RemoveTrackableThrows(ctx, t, l) = OK
    /\ RemoveTrackableThrows(Anonymous, t, l) = IdentityError
    /\ \E m \in LogIDs :
         /\ ~HasLog(ledger, m)
         /\ CreateLogThrows(Anonymous, m, d, CacheIn(ledger, d).Pass)
              = IdentityError

(***************************************************************************)
(* Properties of replicated execution and of references between records.   *)
(***************************************************************************)
\* C29 as stated: the write set of a state-changing invocation is the same
\* on every replica that executes it on the same world state.  The write
\* sets of the other operations are functions of the world state, the
\* arguments and the caller; that of CreateLog also holds the reading of
\* the replica's clock, of which two replicas may get any two of Instants.
C29_SameWritesOnEveryReplica ==
  \A ctx \in Identities, l \in LogIDs, c \in CacheIDs, pass \in TriedPasses :
    CreateLogThrows(ctx, l, c, pass) = OK =>
      \A here \in Instants, there \in Instants :
        CreateLogIssued(ctx, l, c, pass, here)
          = CreateLogIssued(ctx, l, c, pass, there)

\* C30: every stored trackable's VisitLog names a stored log, so the old
\* log that InsertTrackable and RemoveTrackable read and parse is there.
C30_VisitLogExists ==
  \A t \in TrackableIDs :
    HasTrackable(ledger, t) =>
      /\ HasLog(ledger, TrackableIn(ledger, t).VisitLog)
      /\ LogExists(TrackableIn(ledger, t).VisitLog)
      /\ ~ParseThrows(getState(makeLogID(TrackableIn(ledger, t).VisitLog)))

\* C30 witness: a removed trackable whose log was signed at a cache that
\* has been deleted since, and which can be inserted, its old log read
C30_Witness ==
  \E t \in TrackableIDs, l \in LogIDs, ctx \in Callers :
    /\ HasTrackable(ledger, t)
    /\ ~TrackableIn(ledger, t).Inserted
    /\ ~HasCache(ledger, OldLogOf(t).Cache)
    /\ Holds(ledger, TrackableIn(ledger, t).VisitLog, t \o "-OUT")
    /\ InsertTrackableThrows(ctx, t, l) = OK

(***************************************************************************)
(* Tags and the Inserted flag.                                             *)
(***************************************************************************)
\* C31: in every committed state, the log a trackable points to holds
\* "<t>-IN" when the trackable is inserted and "<t>-OUT" when it is not, and
\* over all logs the "<t>-IN" tags outnumber the "<t>-OUT" tags by one when
\* the trackable is inserted and by none when it is removed.
C31_TagsMatchInserted ==
  \A t \in TrackableIDs :
    HasTrackable(ledger, t) =>
      /\ HasLog(ledger, TrackableIn(ledger, t).VisitLog)
      /\ TrackableIn(ledger, t).Inserted = TRUE =>
           /\ Holds(ledger, TrackableIn(ledger, t).VisitLog, t \o "-IN")
           /\ TagCount(ledger, t \o "-IN") - TagCount(ledger, t \o "-OUT") = 1
      /\ TrackableIn(ledger, t).Inserted = FALSE =>
           /\ Holds(ledger, TrackableIn(ledger, t).VisitLog, t \o "-OUT")
           /\ TagCount(ledger, t \o "-IN") - TagCount(ledger, t \o "-OUT") = 0

\* C31 witness: a trackable inserted again after a removal, its three tags
\* in three logs, next to a removed trackable with two tags
C31_Witness ==
  \E t \in TrackableIDs, u \in TrackableIDs :
    /\ HasTrackable(ledger, t) /\ HasTrackable(ledger, u)
    /\ TrackableIn(ledger, t).Inserted = TRUE
    /\ Holds(ledger, TrackableIn(ledger, t).VisitLog, t \o "-IN")
    /\ \E k \in LogIDs :
         /\ k # TrackableIn(ledger, t).VisitLog
         /\ HasLog(ledger, k) /\ Holds(ledger, k, t \o "-OUT")
    /\ TagCount(ledger, t \o "-IN") + TagCount(ledger, t \o "-OUT") = 3
    /\ TrackableIn(ledger, u).Inserted = FALSE
    /\ Holds(ledger, TrackableIn(ledger, u).VisitLog, u \o "-OUT")
    /\ TagCount(ledger, u \o "-IN") + TagCount(ledger, u \o "-OUT") = 2

(***************************************************************************)
(* Custody moves forward in time.                                          *)
(***************************************************************************)
\* the tags of one trackable that a log of a world state holds
TagsOf(state, l, t) ==
  Occurrences(LogIn(state, l).Trackables, t \o "-IN")
    + Occurrences(LogIn(state, l).Trackables, t \o "-OUT")

\* a move of the trackable `t` to the log `l` leads to a later log that held
\* no tag of `t`
MovesForward(err, post, t, l) ==
  err = OK =>
    /\ l # TrackableIn(ledger, t).VisitLog
    /\ TagsOf(ledger, l, t) = 0
    /\ TrackableIn(post, t).VisitLog = l
    /\ InstantOf(LogIn(post, TrackableIn(post, t).VisitLog).Time)
         > InstantOf(OldLogOf(t).Time)

\* C32: every successful InsertTrackable and RemoveTrackable binds the
\* trackable to a log whose Time is strictly later than that of the log it
\* was bound to, which is another log than the current one and held no tag of
\* the trackable; in every committed state no log holds more than one tag of
\* the same trackable, and every log holding one is the trackable's current
\* log or an earlier one.
C32_CustodyMovesForward ==
  /\ \A ctx \in Identities, t \in TrackableIDs, l \in LogIDs :
       /\ MovesForward(InsertTrackableThrows(ctx, t, l),
                       InsertTrackableCommits(ctx, t, l), t, l)
       /\ MovesForward(RemoveTrackableThrows(ctx, t, l),
                       RemoveTrackableCommits(ctx, t, l), t, l)
  /\ \A t \in TrackableIDs, l \in LogIDs :
       HasLog(ledger, l) =>
         /\ TagsOf(ledger, l, t) <= 1
         /\ TagsOf(ledger, l, t) = 1 =>
              /\ HasTrackable(ledger, t)
              /\ \/ l = TrackableIn(ledger, t).VisitLog
                 \/ InstantOf(LogIn(ledger, l).Time)
                      < InstantOf(OldLogOf(t).Time)

\* C32 witness: a trackable created in one log and removed through a second
\* one, and a third, later log of the same author to insert it into
C32_Witness ==
  \E ctx \in Identities, t \in TrackableIDs, l \in LogIDs :
    /\ InsertTrackableThrows(ctx, t, l) = OK
    /\ \E j \in LogIDs, k \in LogIDs :
         /\ j # k /\ j # l /\ k # l
         /\ HasLog(ledger, j) /\ TagsOf(ledger, j, t) = 1
         /\ HasLog(ledger, k) /\ TagsOf(ledger, k, t) = 1
         /\ TrackableIn(ledger, t).VisitLog = k

(***************************************************************************)
(* Chain of custody.                                                       *)
(***************************************************************************)
\* the effective owner of a trackable: the author of the log it points to
OwnerIn(state, t) == LogIn(state, TrackableIn(state, t).VisitLog).User

\* an operation that succeeds leaves the trackable with the caller
OwnedByCaller(err, post, ctx, t) ==
  err = OK => OwnerIn(post, t) = getUserID(ctx)

\* C33: after every successful CreateTrackable, InsertTrackable and
\* RemoveTrackable the author of the log the trackable points to is the
\* caller; a successful InsertTrackable is made by the owner the trackable
\* already had, so it leaves the owner as it was.  (A RemoveTrackable by
\* another caller than the owner succeeds and changes the owner: the
\* witness.)
C33_ChainOfCustody ==
  \A ctx \in Identities, t \in TrackableIDs, l \in LogIDs :
    /\ \A n \in TrackableNames :
         OwnedByCaller(CreateTrackableThrows(ctx, t, l),
                       CreateTrackableCommits(ctx, t, l, n), ctx, t)
    /\ OwnedByCaller(InsertTrackableThrows(ctx, t, l),
                     InsertTrackableCommits(ctx, t, l), ctx, t)
    /\ InsertTrackableThrows(ctx, t, l) = OK =>
         /\ OwnerIn(ledger, t) = getUserID(ctx)
         /\ OwnerIn(InsertTrackableCommits(ctx, t, l), t) = OwnerIn(ledger, t)
    /\ OwnedByCaller(RemoveTrackableThrows(ctx, t, l),
                     RemoveTrackableCommits(ctx, t, l), ctx, t)

\* C33 witness: a trackable removed by another caller than the one who had
\* inserted it, and a later log of the new owner to insert it into
C33_Witness ==
  \E ctx \in Identities, t \in TrackableIDs, l \in LogIDs, k \in LogIDs :
    /\ InsertTrackableThrows(ctx, t, l) = OK
    /\ HasLog(ledger, k) /\ Holds(ledger, k, t \o "-IN")
    /\ LogIn(ledger, k).User # OwnerIn(ledger, t)
    /\ OwnerIn(ledger, t) = getUserID(ctx)

(***************************************************************************)
(* Site continuity.                                                        *)
(***************************************************************************)
\* the logs holding "<t>-IN" that precede the log `l` in the history of the
\* trackable `t`: the latest ones among the earlier logs holding a tag of `t`
PrecedingIn(t, l) ==
  { k \in LogIDs :
      /\ HasLog(ledger, k) /\ Holds(ledger, k, t \o "-IN")
      /\ InstantOf(LogIn(ledger, k).Time) < InstantOf(LogIn(ledger, l).Time)
      /\ \A j \in LogIDs :
           ( /\ HasLog(ledger, j)
             /\ \/ Holds(ledger, j, t \o "-IN")
                \/ Holds(ledger, j, t \o "-OUT")
             /\ InstantOf(LogIn(ledger, j).Time)
                  < InstantOf(LogIn(ledger, l).Time) ) =>
             InstantOf(LogIn(ledger, j).Time)
               <= InstantOf(LogIn(ledger, k).Time) }

\* C34: in every committed state a removed trackable points to a log of the
\* cache of the log through which it was last created or inserted: every log
\* holding "<t>-OUT" has exactly one log preceding it in the trackable's
\* history, which holds "<t>-IN" and has the same Cache; and every successful
\* RemoveTrackable uses a log of the cache of the log the trackable is in.
C34_SiteContinuity ==
  /\ \A t \in TrackableIDs, l \in LogIDs :
       (HasLog(ledger, l) /\ Holds(ledger, l, t \o "-OUT")) =>
         /\ Cardinality(PrecedingIn(t, l)) = 1
         /\ \A k \in PrecedingIn(t, l) :
              LogIn(ledger, k).Cache = LogIn(ledger, l).Cache
  /\ \A t \in TrackableIDs :
       (HasTrackable(ledger, t) /\ TrackableIn(ledger, t).Inserted = FALSE) =>
         /\ Holds(ledger, TrackableIn(ledger, t).VisitLog, t \o "-OUT")
         /\ \A k \in PrecedingIn(t, TrackableIn(ledger, t).VisitLog) :
              LogIn(ledger, k).Cache = OldLogOf(t).Cache
  /\ \A ctx \in Identities, t \in TrackableIDs, l \in LogIDs :
       RemoveTrackableThrows(ctx, t, l) = OK =>
         /\ Holds(ledger, TrackableIn(ledger, t).VisitLog, t \o "-IN")
         /\ LogIn(ledger, l).Cache = OldLogOf(t).Cache
         /\ LogIn(RemoveTrackableCommits(ctx, t, l), l).Cache
              = OldLogOf(t).Cache

\* C34 witness: a trackable removed at the cache it was in, while a later log
\* of the same author at the other cache was there
C34_Witness ==
  \E t \in TrackableIDs, k \in LogIDs, l \in LogIDs, j \in LogIDs :
    /\ HasTrackable(ledger, t)
    /\ TrackableIn(ledger, t).Inserted = FALSE
    /\ TrackableIn(ledger, t).VisitLog = l
    /\ PrecedingIn(t, l) = {k}
    /\ HasLog(ledger, j)
    /\ LogIn(ledger, j).Cache # LogIn(ledger, k).Cache
    /\ LogIn(ledger, j).User = LogIn(ledger, l).User
    /\ InstantOf(LogIn(ledger, j).Time) > InstantOf(LogIn(ledger, k).Time)

(***************************************************************************)
(* Concurrent appends to one log.                                          *)
(***************************************************************************)
\* the invocations that append a tag to a log
Appends ==
  [op : {"CreateTrackable", "InsertTrackable", "RemoveTrackable"},
   ctx : Identities, t : TrackableIDs, l : LogIDs, n : TrackableNames]

AppendThrows(x) ==
  IF x.op = "CreateTrackable" THEN CreateTrackableThrows(x.ctx, x.t, x.l)
  ELSE IF x.op = "InsertTrackable"
       THEN InsertTrackableThrows(x.ctx, x.t, x.l)
  ELSE RemoveTrackableThrows(x.ctx, x.t, x.l)

AppendReads(x) ==
  IF x.op = "CreateTrackable" THEN CreateTrackableReads(x.t, x.l)
  ELSE IF x.op = "InsertTrackable" THEN InsertTrackableReads(x.t, x.l)
  ELSE RemoveTrackableReads(x.t, x.l)

AppendWrites(x) ==
  IF x.op = "CreateTrackable" THEN CreateTrackableWrites(x.t, x.l, x.n)
  ELSE IF x.op = "InsertTrackable" THEN InsertTrackableWrites(x.t, x.l)
  ELSE RemoveTrackableWrites(x.t, x.l)

AppendTag(x) ==
  IF x.op = "RemoveTrackable" THEN x.t \o "-OUT" ELSE x.t \o "-IN"

\* the log `l` of a world state holds the tags it holds now, then `tags`
HoldsThen(state, l, tags) ==
  TrackablesOf(LogIn(state, l)) = TrackablesOf(LogIn(ledger, l)) \o tags

\* C35: of two CreateTrackable/InsertTrackable/RemoveTrackable invocations on
\* different trackables that append to the same log and both pass their
\* checks on the same world state, the one delivered second is rejected,
\* because it has read the log the first one wrote; the committed log holds
\* its earlier tags and the tag of the first.  Would the second be valid,
\* the committed log would not hold both tags.
C35_NoLostTag ==
  \A a \in Appends :
    AppendThrows(a) = OK =>
      \A b \in Appends :
        (b.t # a.t /\ b.l = a.l /\ AppendThrows(b) = OK) =>
          LET final == CommittedInOrder(AppendWrites(a), AppendReads(b),
                                        AppendWrites(b))
          IN /\ \/ ~ValidAfter(AppendReads(b), AppendWrites(a))
                \/ HoldsThen(final, a.l, << AppendTag(a), AppendTag(b) >>)
             /\ ValidAfter(AppendReads(b), AppendWrites(a)) =>
                  Holds(final, a.l, AppendTag(b))
             /\ Holds(final, a.l, AppendTag(a))
             /\ \E rest \in {<<>>, << AppendTag(b) >>} :
                  HoldsThen(final, a.l, << AppendTag(a) >> \o rest)

\* C35 witness: two different operations on two trackables that append to
\* the same log both pass their checks on the current world state
C35_Witness ==
  \E a \in Appends, b \in Appends :
    /\ a.t # b.t /\ a.l = b.l
    /\ a.op # b.op
    /\ AppendThrows(a) = OK /\ AppendThrows(b) = OK
    /\ ~ValidAfter(AppendReads(b), AppendWrites(a))

(***************************************************************************)
(* Non-interference of Pass.                                               *)
(***************************************************************************)
\* the next world state differs from the current one at most in the Pass of
\* caches the caller does not maintain
DiffersInPassOfOthers(ctx) ==
  /\ DOMAIN ledger' = DOMAIN ledger
  /\ \A key \in DOMAIN ledger :
       \/ ledger'[key] = ledger[key]
       \/ \E c \in CacheIDs :
            /\ key = makeCacheID(c)
            /\ CacheIn(ledger, c).Maintainer # getUserID(ctx)
            /\ CacheIn(ledger', c)
                 = [CacheIn(ledger, c) EXCEPT !.Pass = CacheIn(ledger', c).Pass]

\* the reads of caches give the caller the same errors and the same values in
\* the current and the next world state
SameResults(ctx) ==
  /\ GetAllCachesThrows(ctx)' = GetAllCachesThrows(ctx)
  /\ GetAllCachesThrows(ctx) = OK =>
       GetAllCachesReturns(ctx)' = GetAllCachesReturns(ctx)
  /\ \A c \in CacheIDs :
       /\ GetCacheThrows(ctx, c)' = GetCacheThrows(ctx, c)
       /\ GetCacheThrows(ctx, c) = OK =>
            GetCacheReturns(ctx, c)' = GetCacheReturns(ctx, c)
       /\ GetCachePassThrows(ctx, c)' = GetCachePassThrows(ctx, c)
       /\ GetCachePassThrows(ctx, c) = OK =>
            GetCachePassReturns(c)' = GetCachePassReturns(c)
       /\ \A r \in Reports :
            /\ ReportCacheThrows(ctx, c)' = ReportCacheThrows(ctx, c)
            /\ ReportCacheThrows(ctx, c) = OK =>
                 ReportCacheReturns(ctx, c, r)' = ReportCacheReturns(ctx, c, r)

\* C36: of two world states of which the second differs from the first only
\* in the Pass of caches whose Maintainer is not the caller, GetCache,
\* GetAllCaches, GetCachePass and ReportCache give the caller, for the same
\* arguments, the same error or the same value in both.
C36_PassDoesNotInterfere ==
  [][\A ctx \in Identities :
       (ledger' # ledger /\ DiffersInPassOfOthers(ctx)) => SameResults(ctx)]_vars

\* C36 witness: a maintainer has changed nothing but the Pass of a cache that
\* another caller can read
C36_Witness ==
  \E ctx \in Callers, c \in CacheIDs :
    /\ HasCache(ledger, c)
    /\ CacheIn(ledger, c) = [SeedCache(c) EXCEPT !.Pass = "changed"]
    /\ CacheIn(ledger, c).Maintainer # getUserID(ctx)
    /\ GetCacheThrows(ctx, c) = OK
    /\ GetCacheReturns(ctx, c).Pass = ""
    /\ GetCachePassThrows(ctx, c) = PermissionDeniedNotMaintainer

(***************************************************************************)
(* Logs and trackables of a deleted cache.                                 *)
(***************************************************************************)
\* the logs of a world state made at the cache `c`
LogsAt(state, c) ==
  {l \in LogIDs : HasLog(state, l) /\ LogIn(state, l).Cache = c}

\* the logs and trackables of the cache `c` are stored and can be read
StillReadable(c) ==
  /\ \A l \in LogsAt(ledger, c) :
       /\ LogExists(l)
       /\ \E i \in 1..Len(GetAllLogsReturns) :
            GetAllLogsReturns[i] = LogIn(ledger, l)
  /\ \A t \in TrackableIDs :
       (HasTrackable(ledger, t)
          /\ TrackableIn(ledger, t).VisitLog \in LogsAt(ledger, c)) =>
         /\ GetTrackableThrows(t) = OK
         /\ GetTrackableReturns(t) = TrackableIn(ledger, t)

\* C37: a successful DeleteCache deletes the record of the cache and changes
\* no other key, so the logs made at the cache and the trackables bound to
\* them are stored as before; while no cache with that id exists, these
\* records can be read (by GetAllLogs and GetTrackable), every CreateLog for
\* the id fails with NotFound, and a RemoveTrackable of a trackable inserted
\* at a log of that cache succeeds only through a stored log of that cache
\* with a later Time.
C37_DeleteCacheKeepsLogs ==
  /\ \A ctx \in Identities, c \in CacheIDs :
       DeleteCacheThrows(ctx, c) = OK =>
         /\ ~HasCache(DeleteCacheCommits(ctx, c), c)
         /\ DeleteCacheCommits(ctx, c)
              = [k \in DOMAIN ledger \ {makeCacheID(c)} |-> ledger[k]]
         /\ LogsAt(DeleteCacheCommits(ctx, c), c) = LogsAt(ledger, c)
  /\ \A c \in CacheIDs :
       ~HasCache(ledger, c) =>
         /\ StillReadable(c)
         /\ \A ctx \in Identities, l \in LogIDs, Pass \in TriedPasses :
              CreateLogThrows(ctx, l, c, Pass) = NotFoundCache(c)
         /\ \A ctx \in Identities, t \in TrackableIDs, l \in LogIDs :
              ( /\ HasTrackable(ledger, t)
                /\ TrackableIn(ledger, t).Inserted = TRUE
                /\ TrackableIn(ledger, t).VisitLog \in LogsAt(ledger, c)
                /\ RemoveTrackableThrows(ctx, t, l) = OK ) =>
                  /\ l \in LogsAt(ledger, c)
                  /\ Later(t, l)

\* C37 witness: the cache is deleted, a trackable is inserted at a log of it,
\* and a later log of the cache is there through which it can be removed
C37_Witness ==
  \E ctx \in Identities, c \in CacheIDs, t \in TrackableIDs, l \in LogIDs :
    /\ ~HasCache(ledger, c)
    /\ HasTrackable(ledger, t)
    /\ TrackableIn(ledger, t).Inserted = TRUE
    /\ TrackableIn(ledger, t).VisitLog \in LogsAt(ledger, c)
    /\ RemoveTrackableThrows(ctx, t, l) = OK
    /\ \E k \in LogIDs : ~HasLog(ledger, k)

(***************************************************************************)
(* The password gate.                                                      *)
(***************************************************************************)
\* the passwords a visitor may present
GatePasses == TriedPasses \cup NewPasses

\* the logs and trackables of the next world state are those of the current
\* one, and every operation on trackables ends as it would have
LogsStayUsable ==
  /\ \A k \in (DOMAIN ledger \cup DOMAIN ledger') \ {makeCacheID(c) : c \in CacheIDs} :
       /\ k \in DOMAIN ledger /\ k \in DOMAIN ledger'
       /\ ledger'[k] = ledger[k]
  /\ \A ctx \in Identities, t \in TrackableIDs, l \in LogIDs :
       /\ CreateTrackableThrows(ctx, t, l)' = CreateTrackableThrows(ctx, t, l)
       /\ InsertTrackableThrows(ctx, t, l)' = InsertTrackableThrows(ctx, t, l)
       /\ RemoveTrackableThrows(ctx, t, l)' = RemoveTrackableThrows(ctx, t, l)

\* in the next world state CreateLog at the cache `c`, by a caller who
\* resolves and for a free log id, accepts `q` and rejects `p`
GateMoved(c, p, q) ==
  \A ctx \in Identities, l \in LogIDs :
    (UserFound(ctx) /\ ~HasLog(ledger', l)) =>
      /\ CreateLogThrows(ctx, l, c, p)' = InvalidPassword
      /\ CreateLogThrows(ctx, l, c, q)' = OK

\* C38: CreateLog compares the Pass it is given with the Pass stored now.
\* After a successful UpdateCache that changes the Pass of a cache from p to
\* q, a CreateLog at that cache (by a caller who resolves, for a free log id)
\* fails with InvalidPassword when given p and succeeds when given q; the
\* logs and trackables stored before are unchanged and every operation on
\* trackables ends as it would have before.  A ReportCache, by any caller,
\* leaves the outcome of every CreateLog as it was.
C38_GateUsesStoredPass ==
  [][ledger' # ledger =>
       /\ \A ctx \in Identities, c \in CacheIDs, p \in CachePayloads,
             r \in Reports, old \in GatePasses :
            ( /\ UpdateCacheThrows(ctx, c) = OK
              /\ ledger' = UpdateCacheCommits(ctx, c, p.Name, p.Description,
                                              p.GPSX, p.GPSY, p.Pass, r)
              /\ old = CacheIn(ledger, c).Pass
              /\ p.Pass # old ) =>
                /\ GateMoved(c, old, p.Pass)
                /\ LogsStayUsable
       /\ \A ctx \in Identities, c \in CacheIDs, r \in Reports :
            ( /\ HasCache(ledger, c)
              /\ ledger' = ReportCacheCommits(ctx, c, r) ) =>
                \A ctx2 \in Identities, l \in LogIDs, c2 \in CacheIDs,
                   Pass \in GatePasses :
                  CreateLogThrows(ctx2, l, c2, Pass)'
                    = CreateLogThrows(ctx2, l, c2, Pass)]_vars

\* C38 witness: the Pass of a cache has been changed after logs were made at
\* it (logs are made with the first Pass only), a trackable inserted at one
\* of them can be removed through a later one, and a free log id is left to
\* try both passwords with
C38_Witness ==
  \E ctx \in Identities, c \in CacheIDs, t \in TrackableIDs, l \in LogIDs,
     free \in LogIDs :
    /\ HasCache(ledger, c)
    /\ CacheIn(ledger, c).Pass = "changed"
    /\ CacheIn(ledger, c).Report = "broken"
    /\ RemoveTrackableThrows(ctx, t, l) = OK
    /\ LogIn(ledger, l).Cache = c
    /\ CreateLogThrows(ctx, free, c, "secret") = InvalidPassword
    /\ CreateLogThrows(ctx, free, c, "changed") = OK

====
